---- MODULE Spec2Model ----
(***************************************************************************)
(* Model of the Bento Go SDK client (package bento): one Client, its       *)
(* request-execution primitive Client.do, and the public operations built  *)
(* on it.  A call is split at its only blocking point, the transport's Do: *)
(* the operation's action validates the input, builds the request and runs *)
(* Client.do up to the hand-over to the transport; TransportReturn is the  *)
(* rest of the handler, run when Do returns; Return discards the frame.    *)
(***************************************************************************)
EXTENDS Integers, Sequences, FiniteSets, TLC

(***************************************************************************)
(* Bounds of the model.                                                    *)
(***************************************************************************)
\* longest email / IP string enumerated character by character
MaxStrLen == 3
\* longest batch whose items are all enumerated
MaxBatch == 2
\* largest results / failed count a response envelope carries
MaxCount == 1
\* the test doubles a transport can be replaced by
MaxTransports == 2
\* the goroutines that call one client concurrently
MaxProcs == 2

(***************************************************************************)
(* Program constants.                                                      *)
(***************************************************************************)
\* email.go: len(emails) > 60
MaxEmailsPerRequest == 60
\* http.StatusOK, http.StatusCreated
StatusOK == 200
StatusCreated == 201

(***************************************************************************)
(* Strings.  Email and IP strings are sequences of one-character strings,  *)
(* so that the parsers below work on their characters; names, keys, ids    *)
(* and contents are only ever tested for emptiness by the code and are     *)
(* plain strings.                                                          *)
(***************************************************************************)
StringsUpTo(alphabet, n) == UNION {[1..k -> alphabet] : k \in 0..n}

EmailChars == {"a", "@", " "}
IPChars == {"1", ".", ":"}

ValidEmail == <<"a", "@", "a">>
EmailStrings == StringsUpTo(EmailChars, MaxStrLen)
\* the addresses of the items of a batch of two or more: one malformed, one valid
CoreEmails == {<<"a">>, ValidEmail}

DottedQuad == <<"1", ".", "1", ".", "1", ".", "1">>
IPStrings ==
    StringsUpTo(IPChars, MaxStrLen)
        \cup {DottedQuad,
              <<"1", ".", "1", ".", "1">>,
              <<"1", "1", "1", "1", ".", "1", ".", "1", ".", "1">>,
              <<":", ":", "1", ".", "1", ".", "1", ".", "1">>,
              <<"1", ":", ":", "1", "1", "1", "1", "1">>}

Names == {"", "x"}

(***************************************************************************)
(* net/mail.ParseAddress, restricted to EmailChars.  With no '<', '"',     *)
(* '(' , ':' or '[' in the alphabet only the addr-spec branch of           *)
(* parseAddress can succeed:  skipSpace, atom, '@', skipSpace, atom,       *)
(* skipCFWS, end of input.                                                 *)
(***************************************************************************)
RECURSIVE skipSpace(_, _)
skipSpace(s, i) ==
    IF i <= Len(s) /\ s[i] = " " THEN skipSpace(s, i + 1) ELSE i

isAtext(c) == c = "a"

RECURSIVE consumeAtom(_, _)
consumeAtom(s, i) ==
    IF i <= Len(s) /\ isAtext(s[i]) THEN consumeAtom(s, i + 1) ELSE i

\* ParseAddress(s) is TRUE iff mail.ParseAddress(s) returns a nil error
ParseAddressLax(s) == \E i \in 1..Len(s) : s[i] # " "
ParseAddress(s) ==
    LET i1 == skipSpace(s, 1)
        i2 == consumeAtom(s, i1)
        i3 == skipSpace(s, i2 + 1)
        i4 == consumeAtom(s, i3)
        i5 == skipSpace(s, i4)
    IN  /\ i1 <= Len(s)                 \* "mail: no address"
        /\ i2 > i1                      \* local part is a non-empty atom
        /\ i2 <= Len(s) /\ s[i2] = "@"  \* "mail: missing '@' or angle-addr"
        /\ i3 <= Len(s)                 \* "mail: no domain in addr-spec"
        /\ i4 > i3                      \* domain is a non-empty atom
        /\ i5 > Len(s)                  \* "mail: expected single address"

(***************************************************************************)
(* net.ParseIP, restricted to IPChars.  The first '.' or ':' selects the   *)
(* IPv4 or the IPv6 parser; a string with neither is rejected.             *)
(***************************************************************************)
isDigit(c) == c = "1"

RECURSIVE digitRun(_, _)
\* number of digits of s starting at position i
digitRun(s, i) ==
    IF i <= Len(s) /\ isDigit(s[i]) THEN 1 + digitRun(s, i + 1) ELSE 0

RECURSIVE numValue(_, _)
\* value in the given base of a run of c digits, every digit being '1'
numValue(c, base) == IF c = 0 THEN 0 ELSE numValue(c - 1, base) * base + 1

RECURSIVE parseIPv4Fields(_, _, _)
\* fields k..3 of a dotted quad, read from position i; TRUE iff they parse
\* and nothing follows the last one
parseIPv4Fields(s, i, k) ==
    IF k = 4 THEN i > Len(s)
    ELSE IF i > Len(s) THEN FALSE
    ELSE LET j == IF k > 0 THEN i + 1 ELSE i
             c == digitRun(s, j)
         IN  /\ (k > 0 => s[i] = ".")
             /\ c > 0
             /\ numValue(c, 10) <= 255
             /\ parseIPv4Fields(s, j + c, k + 1)

parseIPv4(s, i) == parseIPv4Fields(s, i, 0)

\* the end of parseIPv6: all input consumed, and an ellipsis present exactly
\* when fewer than 16 bytes were written
parseIPv6End(s, pos, i, ellipsis) ==
    /\ pos > Len(s)
    /\ IF i < 16 THEN ellipsis >= 0 ELSE ellipsis < 0

RECURSIVE parseIPv6Loop(_, _, _, _)
parseIPv6Loop(s, pos, i, ellipsis) ==
    IF i >= 16 THEN parseIPv6End(s, pos, i, ellipsis)
    ELSE
    LET c == digitRun(s, pos)
        p1 == pos + c
    IN  IF c = 0 \/ numValue(c, 16) > 65535 THEN FALSE
        ELSE IF p1 <= Len(s) /\ s[p1] = "."
        THEN \* trailing embedded IPv4
             /\ ~(ellipsis < 0 /\ i # 12)
             /\ i + 4 <= 16
             /\ parseIPv4(s, pos)
             /\ parseIPv6End(s, Len(s) + 1, i + 4, ellipsis)
        ELSE IF p1 > Len(s) THEN parseIPv6End(s, p1, i + 2, ellipsis)
        ELSE IF s[p1] # ":" \/ p1 = Len(s) THEN FALSE
        ELSE IF s[p1 + 1] = ":"
        THEN IF ellipsis >= 0 THEN FALSE
             ELSE IF p1 + 2 > Len(s)
                  THEN parseIPv6End(s, p1 + 2, i + 2, i + 2)
                  ELSE parseIPv6Loop(s, p1 + 2, i + 2, i + 2)
        ELSE parseIPv6Loop(s, p1 + 1, i + 2, ellipsis)

parseIPv6(s) ==
    IF Len(s) >= 2 /\ s[1] = ":" /\ s[2] = ":"
    THEN IF Len(s) = 2 THEN TRUE ELSE parseIPv6Loop(s, 3, 0, 0)
    ELSE parseIPv6Loop(s, 1, 0, -1)

RECURSIVE firstSeparator(_, _)
\* the first '.' or ':' of s at or after position i, "" when there is none
firstSeparator(s, i) ==
    IF i > Len(s) THEN ""
    ELSE IF s[i] \in {".", ":"} THEN s[i]
    ELSE firstSeparator(s, i + 1)

\* ParseIP(s) is TRUE iff net.ParseIP(s) returns a non-nil IP
ParseIP(s) ==
    LET sep == firstSeparator(s, 1)
    IN  IF sep = "." THEN parseIPv4(s, 1)
        ELSE IF sep = ":" THEN parseIPv6(s)
        ELSE FALSE

(***************************************************************************)
(* Errors.  An error value is a record: id is the identity of the value    *)
(* (a sentinel's name, or "fmt.Errorf" for a value fmt.Errorf built),      *)
(* wraps the error a %w verb wraps ("none" without one), msg the format    *)
(* string, nums and text its %d and %s arguments.                          *)
(***************************************************************************)
Error(id, wraps, msg, nums, text) ==
    [id |-> id, wraps |-> wraps, msg |-> msg, nums |-> nums, text |-> text]

\* the nil error
NoError == Error("nil", "none", "", << >>, << >>)
\* errors.New(name), a package-level value
Sentinel(name) == Error(name, "none", "", << >>, << >>)
\* fmt.Errorf(format, args...), with the error its %w wraps
Errorf(format, wraps, nums, text) == Error("fmt.Errorf", wraps, format, nums, text)
\* errors.Is(err, target) for a sentinel target
Is(err, target) == err.id = target \/ err.wraps = target

ErrInvalidRequest == Sentinel("ErrInvalidRequest")

\* context.Context.Err() of a context in the given state
Contexts == {"live", "canceled", "deadline"}
ctxErr(ctx) ==
    CASE ctx = "live" -> NoError
      [] ctx = "canceled" -> Sentinel("context.Canceled")
      [] ctx = "deadline" -> Sentinel("context.DeadlineExceeded")

(***************************************************************************)
(* JSON response bodies.  A body is malformed text, a JSON array, or a     *)
(* JSON object whose members results, failed, data and broadcasts are      *)
(* absent or carry a number, a string, an array or an object (with its     *)
(* "id" member).                                                           *)
(***************************************************************************)
JVal(t, n, s) == [t |-> t, n |-> n, s |-> s]
Absent == JVal("absent", 0, "")
JNum(k) == JVal("num", k, "")
JStr(x) == JVal("str", 0, x)
JArr(k) == JVal("arr", k, "")
JObj(id) == JVal("obj", 0, id)

Body(top, results, failed, data, broadcasts) ==
    [top |-> top, results |-> results, failed |-> failed, data |-> data,
     broadcasts |-> broadcasts]

NoBody == Body("none", Absent, Absent, Absent, Absent)
MalformedBody == Body("malformed", Absent, Absent, Absent, Absent)
ArrayBody == Body("array", Absent, Absent, Absent, Absent)
EmptyObject == Body("object", Absent, Absent, Absent, Absent)

Counts == {Absent, JStr("x")} \cup {JNum(k) : k \in 0..MaxCount}
DataValues == {JObj(""), JObj("x"), JNum(1), JArr(0), JArr(1)}

Bodies ==
    {MalformedBody, ArrayBody}
        \cup {Body("object", r, f, Absent, Absent) : r \in Counts, f \in Counts}
        \cup {Body("object", Absent, Absent, d, Absent) : d \in DataValues}
        \cup {Body("object", Absent, Absent, Absent, b) : b \in {JArr(1), JObj("")}}

\* json.Decoder.Decode's error: a syntax error for malformed text, an
\* UnmarshalTypeError when a value does not fit the Go type it is decoded into
JSONSyntaxError == Sentinel("json.SyntaxError")
JSONTypeError == Sentinel("json.UnmarshalTypeError")

fitsInt(v) == v.t \in {"absent", "num"}
fitsStruct(v) == v.t \in {"absent", "obj"}
fitsSlice(v) == v.t \in {"absent", "arr"}

\* Decode's error for a body, given whether the members the target type
\* declares carry values of the declared types
decodeErr(body, fits) ==
    IF body.top = "malformed" THEN JSONSyntaxError
    ELSE IF body.top # "object" \/ ~fits THEN JSONTypeError
    ELSE NoError

\* struct { Results int; Failed int }
decodeBatchResult(body) ==
    decodeErr(body, fitsInt(body.results) /\ fitsInt(body.failed))
\* struct { Results int }
decodeResults(body) == decodeErr(body, fitsInt(body.results))
\* struct { Data T } with T a struct (SubscriberData, TagData, FieldData)
decodeDataStruct(body) == decodeErr(body, fitsStruct(body.data))
\* struct { Data []T }
decodeDataSlice(body) == decodeErr(body, fitsSlice(body.data))
\* struct { Broadcasts []BroadcastData }
decodeBroadcasts(body) == decodeErr(body, fitsSlice(body.broadcasts))
\* map[string]interface{}, and ValidationResponse (its only field is a bool
\* member the bodies here never carry)
decodeMap(body) == decodeErr(body, TRUE)

(***************************************************************************)
(* Results.  NilResult is the nil pointer, nil map or nil slice.           *)
(***************************************************************************)
Result(kind, n, id) == [kind |-> kind, n |-> n, id |-> id]
NilResult == Result("nil", 0, "")
\* the int CreateEmails returns
IntResult(n) == Result("int", n, "")
\* a pointer to a decoded struct, with its ID
StructResult(id) == Result("struct", 0, id)
\* a decoded slice of n elements; a member that is absent leaves the slice nil
SliceResult(v) == IF v.t = "absent" THEN NilResult ELSE Result("slice", v.n, "")
\* a decoded map: the members of the response body
MapResult == Result("map", 0, "")

(***************************************************************************)
(* The transport (HTTPDoer).  Do returns an error or a response.           *)
(***************************************************************************)
TransportErrors ==
    {Sentinel("context.Canceled"), Sentinel("context.DeadlineExceeded"),
     Sentinel("network unreachable"), Sentinel("connection reset by peer")}

SuccessStatuses == {StatusOK, StatusCreated}
ErrorStatuses == {204, 302, 400, 401, 403, 404, 429, 500, 503}

Outcome(e, status, body) == [err |-> e, status |-> status, body |-> body]
NoOutcome == Outcome(NoError, 0, NoBody)

TransportOutcomes ==
    {Outcome(e, 0, NoBody) : e \in TransportErrors}
        \cup {Outcome(NoError, st, b) : st \in SuccessStatuses, b \in Bodies}
        \cup {Outcome(NoError, st, b) : st \in ErrorStatuses,
                                        b \in {EmptyObject, MalformedBody}}

(***************************************************************************)
(* The client and the state of the call in progress.                       *)
(***************************************************************************)
VARIABLES
    client,     \* the Client: baseURL, httpClient, config
    pc,         \* "idle", "inflight" (inside the transport's Do) or "done"
    call,       \* the operation called, its context and its input
    request,    \* the request handed to the transport (NoRequest: none)
    doCalls,    \* how many times this call invoked the transport's Do
    outcome,    \* what the transport's Do returned to this call
    result,     \* the result the operation returned
    err,        \* the error the operation returned
    closed,     \* how many times this call closed the response body
    doer,       \* the transport whose Do this call invoked (NilTransport: none)
    frames      \* the calls of the goroutines that share the client

vars ==
    <<client, pc, call, request, doCalls, outcome, result, err, closed, doer,
      frames>>

\* HTTPDoer values: nil, the &http.Client{Timeout: t} NewClient builds, and
\* the test doubles SetHTTPClient is given
Transport(kind, id, timeout) == [kind |-> kind, id |-> id, timeout |-> timeout]
NilTransport == Transport("nil", 0, 0)
DefaultTransport(t) == Transport("http.Client", 0, t)
MockTransport(k) == Transport("mock", k, 0)
MockTransports == {MockTransport(k) : k \in 1..MaxTransports}

\* setupTestClient's Config: three non-empty keys and a 10 s timeout
TestConfig ==
    [PublishableKey |-> "pk", SecretKey |-> "sk", SiteUUID |-> "site",
     Timeout |-> 10]

BaseURL == "https://app.bentonow.com/api/v1"

NoCall == [op |-> "none", ctx |-> "live", input |-> << >>]

(***************************************************************************)
(* Requests.                                                               *)
(***************************************************************************)
NoReqBody == [member |-> "", value |-> << >>]
\* json.Marshal(map[string]interface{}{member: value})
JSONBody(member, value) == [member |-> member, value |-> value]

Request(method, base, path, query, body) ==
    [method |-> method, base |-> base, path |-> path, query |-> query,
     body |-> body, auth |-> << >>, accept |-> "", contentType |-> "",
     userAgent |-> << >>]

NoRequest == Request("", "", "", << >>, NoReqBody)

\* http.NewRequestWithContext(ctx, method, baseURL + path, body)
NewRequest(method, path, body) ==
    Request(method, client.baseURL, path, << >>, body)

\* q := req.URL.Query(); q.Add(key, value); req.URL.RawQuery = q.Encode()
AddQuery(req, key, value) == [req EXCEPT !.query = @ @@ (key :> value)]

\* the goroutines, and the frame of a goroutine that is in no call
Procs == 1..MaxProcs
Frame(fpc, c, startClient, req, via, out, res, e, raced) ==
    [pc |-> fpc, call |-> c, startClient |-> startClient, request |-> req,
     doer |-> via, outcome |-> out, result |-> res, err |-> e, raced |-> raced]

(***************************************************************************)
(* Client.do.                                                              *)
(***************************************************************************)
\* the check of req.Context().Err() that opens Client.do
doContextErrSkipped(ctx) == NoError
doContextErr(ctx) == ctxErr(ctx)

\* SetBasicAuth, the three headers and the site_uuid parameter
doPrepareNoSiteUUID(req) ==
    [req EXCEPT !.auth = <<client.config.PublishableKey, client.config.SecretKey>>,
                !.accept = "application/json",
                !.contentType = "application/json",
                !.userAgent = <<"bento-go-", client.config.SiteUUID>>]
doPrepare(req) ==
    AddQuery([req EXCEPT !.auth = <<client.config.PublishableKey,
                                    client.config.SecretKey>>,
                         !.accept = "application/json",
                         !.contentType = "application/json",
                         !.userAgent = <<"bento-go-", client.config.SiteUUID>>],
             "site_uuid", client.config.SiteUUID)

\* what Client.do returns for what the transport's Do returned: the same
\* response and error
doReturnWrapped(out) ==
    IF out.err # NoError
    THEN [out EXCEPT !.err = Errorf("request failed: %w", out.err.id, << >>, << >>)]
    ELSE out
doReturn(out) == out

\* fmt.Errorf("%w: %d", ErrAPIResponse, resp.StatusCode)
apiErrorNoStatus(status) == Errorf("%w", "ErrAPIResponse", << >>, << >>)
apiError(status) == Errorf("%w: %d", "ErrAPIResponse", <<status>>, << >>)

\* fmt.Errorf("failed to parse response: %w", err)
parseError(e) == Errorf("failed to parse response: %w", e.id, << >>, << >>)

\* what an operation returns
Ret(res, e) == [result |-> res, err |-> e]

\* an operation that validated its input and built req: Client.do up to the
\* call of the transport's Do
DispatchRemembering(op, ctx, input, zero, req) ==
    /\ call' = [op |-> op, ctx |-> ctx, input |-> input]
    /\ outcome' = NoOutcome
    /\ closed' = 0
    /\ result' = zero
    /\ IF doContextErr(ctx) # NoError
       THEN /\ err' = doContextErr(ctx)
            /\ request' = NoRequest
            /\ doCalls' = 0
            /\ doer' = NilTransport
            /\ pc' = "done"
       ELSE /\ err' = NoError
            /\ request' = doPrepare(req)
            /\ doCalls' = 1
            /\ doer' = client.httpClient
            /\ pc' = "inflight"
    /\ client' = [client EXCEPT !.config.SiteUUID = "used"]
    /\ UNCHANGED frames
Dispatch(op, ctx, input, zero, req) ==
    /\ call' = [op |-> op, ctx |-> ctx, input |-> input]
    /\ outcome' = NoOutcome
    /\ closed' = 0
    /\ result' = zero
    /\ IF doContextErr(ctx) # NoError
       THEN /\ err' = doContextErr(ctx)
            /\ request' = NoRequest
            /\ doCalls' = 0
            /\ doer' = NilTransport
            /\ pc' = "done"
       ELSE /\ err' = NoError
            /\ request' = doPrepare(req)
            /\ doCalls' = 1
            /\ doer' = client.httpClient
            /\ pc' = "inflight"
    /\ UNCHANGED <<client, frames>>

\* an operation that rejected its input
Reject(op, ctx, input, zero, e) ==
    /\ call' = [op |-> op, ctx |-> ctx, input |-> input]
    /\ outcome' = NoOutcome
    /\ closed' = 0
    /\ result' = zero
    /\ err' = e
    /\ request' = NoRequest
    /\ doCalls' = 0
    /\ doer' = NilTransport
    /\ pc' = "done"
    /\ UNCHANGED <<client, frames>>

\* the opening of an operation: validate, then build and dispatch
InvokeContextFirst(op, ctx, input, zero, verr, req) ==
    IF ctxErr(ctx) # NoError
    THEN Reject(op, ctx, input, zero, ctxErr(ctx))
    ELSE IF verr # NoError
    THEN Reject(op, ctx, input, zero, verr)
    ELSE Dispatch(op, ctx, input, zero, req)
Invoke(op, ctx, input, zero, verr, req) ==
    IF verr # NoError
    THEN Reject(op, ctx, input, zero, verr)
    ELSE Dispatch(op, ctx, input, zero, req)

\* the batches an operation is called with: the empty one, every single
\* item, and every batch of 2..MaxBatch core items
Batches(items, core) ==
    {<< >>} \cup {<<x>> : x \in items}
        \cup UNION {[1..k -> core] : k \in 2..MaxBatch}

\* the error of the first item of a batch that has one, given every item's
\* error: the loops over a batch return at the first item that fails
RECURSIVE firstError(_, _)
firstErrorFromEnd(errs, i) ==
    LET failing == {j \in i..Len(errs) : errs[j] # NoError}
    IN  IF failing = {} THEN NoError
        ELSE errs[CHOOSE j \in failing : \A k \in failing : k <= j]
firstError(errs, i) ==
    IF i > Len(errs) THEN NoError
    ELSE IF errs[i] # NoError THEN errs[i]
    ELSE firstError(errs, i + 1)

(***************************************************************************)
(* Tags.                                                                   *)
(***************************************************************************)
GetTagsRequest == NewRequest("GET", "/fetch/tags", NoReqBody)

GetTagsResponseCreated(resp) ==
    IF resp.status # StatusOK /\ resp.status # StatusCreated
    THEN Ret(NilResult, apiError(resp.status))
    ELSE IF decodeDataSlice(resp.body) # NoError
    THEN Ret(NilResult, parseError(decodeDataSlice(resp.body)))
    ELSE Ret(SliceResult(resp.body.data), NoError)
GetTagsResponse(resp) ==
    IF resp.status # StatusOK THEN Ret(NilResult, apiError(resp.status))
    ELSE IF decodeDataSlice(resp.body) # NoError
    THEN Ret(NilResult, parseError(decodeDataSlice(resp.body)))
    ELSE Ret(SliceResult(resp.body.data), NoError)

GetTags ==
    /\ pc = "idle"
    /\ \E ctx \in Contexts :
           Invoke("GetTags", ctx, << >>, NilResult, NoError, GetTagsRequest)

CreateTagValidate(tagName) ==
    IF tagName = ""
    THEN Errorf("%w: tag name is required", "ErrInvalidRequest", << >>, << >>)
    ELSE NoError

CreateTagRequest(tagName) ==
    NewRequest("POST", "/fetch/tags", JSONBody("tag", [name |-> tagName]))

CreateTagResponse(resp) ==
    IF resp.status # StatusOK /\ resp.status # StatusCreated
    THEN Ret(NilResult, apiError(resp.status))
    ELSE IF decodeDataStruct(resp.body) # NoError
    THEN Ret(NilResult, parseError(decodeDataStruct(resp.body)))
    ELSE Ret(StructResult(resp.body.data.s), NoError)

CreateTag ==
    /\ pc = "idle"
    /\ \E ctx \in Contexts, tagName \in Names :
           Invoke("CreateTag", ctx, tagName, NilResult,
                  CreateTagValidate(tagName), CreateTagRequest(tagName))

(***************************************************************************)
(* Fields.                                                                 *)
(***************************************************************************)
GetFieldsRequest == NewRequest("GET", "/fetch/fields", NoReqBody)

GetFieldsResponse(resp) ==
    IF resp.status # StatusOK THEN Ret(NilResult, apiError(resp.status))
    ELSE IF decodeDataSlice(resp.body) # NoError
    THEN Ret(NilResult, parseError(decodeDataSlice(resp.body)))
    ELSE Ret(SliceResult(resp.body.data), NoError)

GetFields ==
    /\ pc = "idle"
    /\ \E ctx \in Contexts :
           Invoke("GetFields", ctx, << >>, NilResult, NoError, GetFieldsRequest)

CreateFieldValidate(key) ==
    IF key = ""
    THEN Errorf("%w: field key is required", "ErrInvalidRequest", << >>, << >>)
    ELSE NoError

CreateFieldRequest(key) ==
    NewRequest("POST", "/fetch/fields", JSONBody("field", [key |-> key]))

CreateFieldResponse(resp) ==
    IF resp.status # StatusOK /\ resp.status # StatusCreated
    THEN Ret(NilResult, apiError(resp.status))
    ELSE IF decodeDataStruct(resp.body) # NoError
    THEN Ret(NilResult, parseError(decodeDataStruct(resp.body)))
    ELSE Ret(StructResult(resp.body.data.s), NoError)

CreateField ==
    /\ pc = "idle"
    /\ \E ctx \in Contexts, key \in Names :
           Invoke("CreateField", ctx, key, NilResult,
                  CreateFieldValidate(key), CreateFieldRequest(key))

(***************************************************************************)
(* Subscribers.                                                            *)
(***************************************************************************)
\* fmt.Errorf("%w: %s", ErrInvalidEmail, email)
invalidEmail(email) == Errorf("%w: %s", "ErrInvalidEmail", << >>, email)

FindSubscriberValidate(email) ==
    IF ~ParseAddress(email) THEN invalidEmail(email) ELSE NoError

FindSubscriberRequest(email) ==
    AddQuery(NewRequest("GET", "/fetch/subscribers", NoReqBody), "email", email)

\* response.Data.ID == ""
subscriberNotFoundNever(body) == FALSE
subscriberNotFound(body) == body.data.s = ""

FindSubscriberResponsePartial(email, resp) ==
    IF resp.status # StatusOK THEN Ret(NilResult, apiError(resp.status))
    ELSE IF decodeDataStruct(resp.body) # NoError
    THEN Ret(NilResult, parseError(decodeDataStruct(resp.body)))
    ELSE IF subscriberNotFound(resp.body)
    THEN Ret(StructResult(resp.body.data.s),
             Errorf("subscriber not found: %s", "none", << >>, email))
    ELSE Ret(StructResult(resp.body.data.s), NoError)
FindSubscriberResponse(email, resp) ==
    IF resp.status # StatusOK THEN Ret(NilResult, apiError(resp.status))
    ELSE IF decodeDataStruct(resp.body) # NoError
    THEN Ret(NilResult, parseError(decodeDataStruct(resp.body)))
    ELSE IF subscriberNotFound(resp.body)
    THEN Ret(NilResult, Errorf("subscriber not found: %s", "none", << >>, email))
    ELSE Ret(StructResult(resp.body.data.s), NoError)

FindSubscriber ==
    /\ pc = "idle"
    /\ \E ctx \in Contexts, email \in EmailStrings :
           Invoke("FindSubscriber", ctx, email, NilResult,
                  FindSubscriberValidate(email), FindSubscriberRequest(email))

\* a SubscriberInput: only its Email is ever examined
SubscriberInputs == {[Email |-> e] : e \in EmailStrings}
CoreSubscriberInputs == {[Email |-> e] : e \in CoreEmails}

CreateSubscriberValidate(input) ==
    IF ~ParseAddress(input.Email) THEN invalidEmail(input.Email) ELSE NoError

CreateSubscriberRequest(input) ==
    NewRequest("POST", "/fetch/subscribers", JSONBody("subscriber", input))

CreateSubscriberResponse(resp) ==
    IF resp.status # StatusOK /\ resp.status # StatusCreated
    THEN Ret(NilResult, apiError(resp.status))
    ELSE IF decodeDataStruct(resp.body) # NoError
    THEN Ret(NilResult, parseError(decodeDataStruct(resp.body)))
    ELSE Ret(StructResult(resp.body.data.s), NoError)

CreateSubscriber ==
    /\ pc = "idle"
    /\ \E ctx \in Contexts, input \in SubscriberInputs :
           Invoke("CreateSubscriber", ctx, input, NilResult,
                  CreateSubscriberValidate(input), CreateSubscriberRequest(input))

ImportSubscribersValidate(subscribers) ==
    IF Len(subscribers) = 0 THEN ErrInvalidRequest
    ELSE firstError([i \in 1..Len(subscribers) |->
                        CreateSubscriberValidate(subscribers[i])], 1)

ImportSubscribersRequest(subscribers) ==
    NewRequest("POST", "/batch/subscribers", JSONBody("subscribers", subscribers))

\* result.Failed > 0
batchFailedOnlyIfNoneSucceeded(body) == body.failed.n > 0 /\ body.results.n = 0
batchFailed(body) == body.failed.n > 0

ImportSubscribersResponse(resp) ==
    IF resp.status # StatusOK THEN Ret(NilResult, apiError(resp.status))
    ELSE IF decodeBatchResult(resp.body) # NoError
    THEN Ret(NilResult, decodeBatchResult(resp.body))
    ELSE IF batchFailed(resp.body)
    THEN Ret(NilResult, Errorf("import partially failed: %d succeeded, %d failed",
                               "none", <<resp.body.results.n, resp.body.failed.n>>,
                               << >>))
    ELSE Ret(NilResult, NoError)

ImportSubscribers ==
    /\ pc = "idle"
    /\ \E ctx \in Contexts,
          subscribers \in Batches(SubscriberInputs, CoreSubscriberInputs) :
           Invoke("ImportSubscribers", ctx, subscribers, NilResult,
                  ImportSubscribersValidate(subscribers),
                  ImportSubscribersRequest(subscribers))

(***************************************************************************)
(* Events.                                                                 *)
(***************************************************************************)
Events == {[Type |-> t, Email |-> e] : t \in Names, e \in EmailStrings}
CoreEvents == {[Type |-> t, Email |-> e] : t \in Names, e \in CoreEmails}

eventError(event) ==
    IF ~ParseAddress(event.Email) THEN invalidEmail(event.Email)
    ELSE IF event.Type = ""
    THEN Errorf("%w: event type is required", "ErrInvalidRequest", << >>, << >>)
    ELSE NoError

TrackEventValidate(events) ==
    IF Len(events) = 0 THEN ErrInvalidRequest
    ELSE firstError([i \in 1..Len(events) |-> eventError(events[i])], 1)

TrackEventRequest(events) ==
    NewRequest("POST", "/batch/events", JSONBody("events", events))

TrackEventResponse(resp) ==
    IF resp.status # StatusOK THEN Ret(NilResult, apiError(resp.status))
    ELSE IF decodeBatchResult(resp.body) # NoError
    THEN Ret(NilResult, decodeBatchResult(resp.body))
    ELSE IF batchFailed(resp.body)
    THEN Ret(NilResult,
             Errorf("event tracking partially failed: %d succeeded, %d failed",
                    "none", <<resp.body.results.n, resp.body.failed.n>>, << >>))
    ELSE Ret(NilResult, NoError)

TrackEvent ==
    /\ pc = "idle"
    /\ \E ctx \in Contexts, events \in Batches(Events, CoreEvents) :
           Invoke("TrackEvent", ctx, events, NilResult,
                  TrackEventValidate(events), TrackEventRequest(events))

(***************************************************************************)
(* Subscriber commands.                                                    *)
(***************************************************************************)
CommandTypes ==
    {"add_tag", "add_tag_via_event", "remove_tag", "add_field", "remove_field",
     "subscribe", "unsubscribe", "change_email"}
\* the values a caller can put into CommandData.Command: CommandType is a
\* string type, so any string
CommandValues == CommandTypes \cup {"invalid_command"}

Commands ==
    {[Command |-> c, Email |-> e, Query |-> q] :
        c \in CommandValues, e \in EmailStrings, q \in Names}
CoreCommands ==
    {[Command |-> c, Email |-> e, Query |-> q] :
        c \in CommandValues, e \in CoreEmails, q \in Names}

validateCommandTypeForgetful(cmd) ==
    IF cmd \notin CommandTypes \ {"change_email"}
    THEN Errorf("%w: invalid command type: %s", "ErrInvalidRequest", << >>, <<cmd>>)
    ELSE NoError
validateCommandType(cmd) ==
    IF cmd \notin CommandTypes
    THEN Errorf("%w: invalid command type: %s", "ErrInvalidRequest", << >>, <<cmd>>)
    ELSE NoError

commandError(cmd) ==
    IF ~ParseAddress(cmd.Email) THEN invalidEmail(cmd.Email)
    ELSE IF cmd.Query = ""
    THEN Errorf("%w: command query is required", "ErrInvalidRequest", << >>, << >>)
    ELSE validateCommandType(cmd.Command)

SubscriberCommandValidate(commands) ==
    IF Len(commands) = 0 THEN ErrInvalidRequest
    ELSE firstError([i \in 1..Len(commands) |-> commandError(commands[i])], 1)

SubscriberCommandRequest(commands) ==
    NewRequest("POST", "/fetch/commands", JSONBody("command", commands))

SubscriberCommandResponse(resp) ==
    IF resp.status # StatusOK THEN Ret(NilResult, apiError(resp.status))
    ELSE IF decodeBatchResult(resp.body) # NoError
    THEN Ret(NilResult, decodeBatchResult(resp.body))
    ELSE IF batchFailed(resp.body)
    THEN Ret(NilResult,
             Errorf("command execution partially failed: %d succeeded, %d failed",
                    "none", <<resp.body.results.n, resp.body.failed.n>>, << >>))
    ELSE Ret(NilResult, NoError)

SubscriberCommand ==
    /\ pc = "idle"
    /\ \E ctx \in Contexts, commands \in Batches(Commands, CoreCommands) :
           Invoke("SubscriberCommand", ctx, commands, NilResult,
                  SubscriberCommandValidate(commands),
                  SubscriberCommandRequest(commands))

(***************************************************************************)
(* Emails.                                                                 *)
(***************************************************************************)
EmailDatas ==
    {[To |-> t, From |-> f, Subject |-> sb, HTMLBody |-> h] :
        t \in EmailStrings, f \in EmailStrings, sb \in Names, h \in Names}
CoreEmailDatas ==
    {[To |-> t, From |-> f, Subject |-> sb, HTMLBody |-> h] :
        t \in CoreEmails, f \in CoreEmails, sb \in Names, h \in Names}
ValidEmailData ==
    [To |-> ValidEmail, From |-> ValidEmail, Subject |-> "x", HTMLBody |-> "x"]

\* batches around the cap: up to MaxBatch core items followed by 59 or 60
\* valid ones
LongEmailBatches ==
    {b \o [i \in 1..k |-> ValidEmailData] :
        b \in UNION {[1..n -> CoreEmailDatas] : n \in 0..MaxBatch},
        k \in {MaxEmailsPerRequest - 1, MaxEmailsPerRequest}}

\* len(emails) > 60
exceedsBatchCapOffByOne(n) == n >= MaxEmailsPerRequest
exceedsBatchCap(n) == n > MaxEmailsPerRequest

emailDataError(email) ==
    IF ~ParseAddress(email.To)
    THEN Errorf("%w: invalid recipient email: %s", "ErrInvalidEmail", << >>, email.To)
    ELSE IF ~ParseAddress(email.From)
    THEN Errorf("%w: invalid sender email: %s", "ErrInvalidEmail", << >>, email.From)
    ELSE IF email.Subject = ""
    THEN Errorf("%w: subject is required", "ErrInvalidRequest", << >>, << >>)
    ELSE IF email.HTMLBody = ""
    THEN Errorf("%w: html_body is required", "ErrInvalidRequest", << >>, << >>)
    ELSE NoError

CreateEmailsValidate(emails) ==
    IF Len(emails) = 0
    THEN Errorf("%w: no emails provided", "ErrInvalidRequest", << >>, << >>)
    ELSE IF exceedsBatchCap(Len(emails))
    THEN Errorf("%w: maximum of 60 emails allowed per request", "ErrInvalidRequest",
                << >>, << >>)
    ELSE firstError([i \in 1..Len(emails) |-> emailDataError(emails[i])], 1)

CreateEmailsRequest(emails) ==
    NewRequest("POST", "/batch/emails", JSONBody("emails", emails))

CreateEmailsResponsePartial(resp) ==
    IF resp.status # StatusOK THEN Ret(IntResult(0), apiError(resp.status))
    ELSE IF decodeResults(resp.body) # NoError
    THEN Ret(IntResult(0), decodeResults(resp.body))
    ELSE IF batchFailed(resp.body)
    THEN Ret(IntResult(0), Errorf("operation partially failed: %d succeeded, %d failed",
                                  "none", <<resp.body.results.n, resp.body.failed.n>>,
                                  << >>))
    ELSE Ret(IntResult(resp.body.results.n), NoError)
CreateEmailsResponse(resp) ==
    IF resp.status # StatusOK THEN Ret(IntResult(0), apiError(resp.status))
    ELSE IF decodeResults(resp.body) # NoError
    THEN Ret(IntResult(0), decodeResults(resp.body))
    ELSE Ret(IntResult(resp.body.results.n), NoError)

CreateEmails ==
    /\ pc = "idle"
    /\ \E ctx \in Contexts,
          emails \in Batches(EmailDatas, CoreEmailDatas) \cup LongEmailBatches :
           Invoke("CreateEmails", ctx, emails, IntResult(0),
                  CreateEmailsValidate(emails), CreateEmailsRequest(emails))

(***************************************************************************)
(* Broadcasts.                                                             *)
(***************************************************************************)
GetBroadcastsRequest == NewRequest("GET", "/fetch/broadcasts", NoReqBody)

GetBroadcastsResponse(resp) ==
    IF resp.status # StatusOK THEN Ret(NilResult, apiError(resp.status))
    ELSE IF decodeBroadcasts(resp.body) # NoError
    THEN Ret(NilResult, decodeBroadcasts(resp.body))
    ELSE Ret(SliceResult(resp.body.broadcasts), NoError)

GetBroadcasts ==
    /\ pc = "idle"
    /\ \E ctx \in Contexts :
           Invoke("GetBroadcasts", ctx, << >>, NilResult, NoError, GetBroadcastsRequest)

Broadcasts ==
    {[Name |-> n, Subject |-> sb, Content |-> c, From |-> [Email |-> e],
      BatchSizePerHour |-> bs] :
        n \in Names, sb \in Names, c \in Names, e \in EmailStrings,
        bs \in {-1, 0, 1}}
CoreBroadcasts ==
    {[Name |-> n, Subject |-> sb, Content |-> c, From |-> [Email |-> e],
      BatchSizePerHour |-> bs] :
        n \in Names, sb \in Names, c \in Names, e \in CoreEmails,
        bs \in {-1, 0, 1}}

broadcastErrorZeroAllowed(broadcast) ==
    IF broadcast.Name = ""
    THEN Errorf("%w: broadcast name is required", "ErrInvalidRequest", << >>, << >>)
    ELSE IF broadcast.Subject = ""
    THEN Errorf("%w: broadcast subject is required", "ErrInvalidRequest", << >>, << >>)
    ELSE IF broadcast.Content = ""
    THEN Errorf("%w: broadcast content is required", "ErrInvalidRequest", << >>, << >>)
    ELSE IF ~ParseAddress(broadcast.From.Email) THEN invalidEmail(broadcast.From.Email)
    ELSE IF broadcast.BatchSizePerHour < 0
    THEN Errorf("%w: batch size must be positive", "ErrInvalidBatchSize", << >>, << >>)
    ELSE NoError
broadcastError(broadcast) ==
    IF broadcast.Name = ""
    THEN Errorf("%w: broadcast name is required", "ErrInvalidRequest", << >>, << >>)
    ELSE IF broadcast.Subject = ""
    THEN Errorf("%w: broadcast subject is required", "ErrInvalidRequest", << >>, << >>)
    ELSE IF broadcast.Content = ""
    THEN Errorf("%w: broadcast content is required", "ErrInvalidRequest", << >>, << >>)
    ELSE IF ~ParseAddress(broadcast.From.Email) THEN invalidEmail(broadcast.From.Email)
    ELSE IF broadcast.BatchSizePerHour <= 0
    THEN Errorf("%w: batch size must be positive", "ErrInvalidBatchSize", << >>, << >>)
    ELSE NoError

CreateBroadcastValidate(broadcasts) ==
    IF Len(broadcasts) = 0 THEN ErrInvalidRequest
    ELSE firstError([i \in 1..Len(broadcasts) |-> broadcastError(broadcasts[i])], 1)

CreateBroadcastRequest(broadcasts) ==
    NewRequest("POST", "/batch/broadcasts", JSONBody("broadcasts", broadcasts))

CreateBroadcastResponse(resp) ==
    IF resp.status # StatusOK /\ resp.status # StatusCreated
    THEN Ret(NilResult, apiError(resp.status))
    ELSE Ret(NilResult, NoError)

CreateBroadcast ==
    /\ pc = "idle"
    /\ \E ctx \in Contexts, broadcasts \in Batches(Broadcasts, CoreBroadcasts) :
           Invoke("CreateBroadcast", ctx, broadcasts, NilResult,
                  CreateBroadcastValidate(broadcasts),
                  CreateBroadcastRequest(broadcasts))

(***************************************************************************)
(* Statistics.                                                             *)
(***************************************************************************)
\* the tail shared by the operations that decode into map[string]interface{}
\* and accept only 200
mapResponse(resp) ==
    IF resp.status # StatusOK THEN Ret(NilResult, apiError(resp.status))
    ELSE IF decodeMap(resp.body) # NoError
    THEN Ret(NilResult, decodeMap(resp.body))
    ELSE Ret(MapResult, NoError)

GetSiteStatsRequest == NewRequest("GET", "/stats/site", NoReqBody)

GetSiteStats ==
    /\ pc = "idle"
    /\ \E ctx \in Contexts :
           Invoke("GetSiteStats", ctx, << >>, NilResult, NoError, GetSiteStatsRequest)

GetSegmentStatsValidateAsRequest(segmentID) ==
    IF segmentID = ""
    THEN Errorf("%w: segment ID is required", "ErrInvalidRequest", << >>, << >>)
    ELSE NoError
GetSegmentStatsValidate(segmentID) ==
    IF segmentID = ""
    THEN Errorf("%w: segment ID is required", "ErrInvalidSegmentID", << >>, << >>)
    ELSE NoError

GetSegmentStatsRequest(segmentID) ==
    AddQuery(NewRequest("GET", "/stats/segment", NoReqBody), "segment_id", segmentID)

GetSegmentStats ==
    /\ pc = "idle"
    /\ \E ctx \in Contexts, segmentID \in Names :
           Invoke("GetSegmentStats", ctx, segmentID, NilResult,
                  GetSegmentStatsValidate(segmentID), GetSegmentStatsRequest(segmentID))

GetReportStatsValidate(reportID) ==
    IF reportID = ""
    THEN Errorf("%w: report ID is required", "ErrInvalidRequest", << >>, << >>)
    ELSE NoError

GetReportStatsRequest(reportID) ==
    AddQuery(NewRequest("GET", "/stats/report", NoReqBody), "report_id", reportID)

GetReportStats ==
    /\ pc = "idle"
    /\ \E ctx \in Contexts, reportID \in Names :
           Invoke("GetReportStats", ctx, reportID, NilResult,
                  GetReportStatsValidate(reportID), GetReportStatsRequest(reportID))

(***************************************************************************)
(* Experimental operations.                                                *)
(***************************************************************************)
\* fmt.Errorf("%w: %s", ErrInvalidIPAddress, ip)
invalidIPAsRequest(ip) == Errorf("%w: %s", "ErrInvalidRequest", << >>, ip)
invalidIP(ip) == Errorf("%w: %s", "ErrInvalidIPAddress", << >>, ip)

BlacklistDatas == {[Domain |-> d, IPAddress |-> ip] : d \in Names, ip \in IPStrings}

GetBlacklistStatusValidate(data) ==
    IF data.Domain = "" /\ data.IPAddress = << >>
    THEN Errorf("%w: either domain or IP address is required", "ErrInvalidRequest",
                << >>, << >>)
    ELSE IF data.IPAddress # << >> /\ ~ParseIP(data.IPAddress)
    THEN invalidIP(data.IPAddress)
    ELSE NoError

GetBlacklistStatusRequest(data) ==
    LET r0 == NewRequest("GET", "/experimental/blacklist.json", NoReqBody)
        r1 == IF data.Domain # "" THEN AddQuery(r0, "domain", data.Domain) ELSE r0
    IN  IF data.IPAddress # << >> THEN AddQuery(r1, "ip", data.IPAddress) ELSE r1

GetBlacklistStatus ==
    /\ pc = "idle"
    /\ \E ctx \in Contexts, data \in BlacklistDatas :
           Invoke("GetBlacklistStatus", ctx, data, NilResult,
                  GetBlacklistStatusValidate(data), GetBlacklistStatusRequest(data))

ValidationDatas ==
    {[EmailAddress |-> e, FullName |-> n, UserAgent |-> ua, IPAddress |-> ip] :
        e \in EmailStrings, n \in Names, ua \in Names, ip \in IPStrings}

ValidateEmailValidate(data) ==
    IF ~ParseAddress(data.EmailAddress) THEN invalidEmail(data.EmailAddress)
    ELSE IF data.IPAddress # << >> /\ ~ParseIP(data.IPAddress)
    THEN invalidIP(data.IPAddress)
    ELSE NoError

ValidateEmailRequest(data) ==
    LET r0 == AddQuery(NewRequest("POST", "/experimental/validation", NoReqBody),
                       "email", data.EmailAddress)
        r1 == IF data.FullName # "" THEN AddQuery(r0, "name", data.FullName) ELSE r0
        r2 == IF data.UserAgent # ""
              THEN AddQuery(r1, "user_agent", data.UserAgent) ELSE r1
    IN  IF data.IPAddress # << >> THEN AddQuery(r2, "ip", data.IPAddress) ELSE r2

ValidateEmailResponse(resp) ==
    IF resp.status # StatusOK THEN Ret(NilResult, apiError(resp.status))
    ELSE IF decodeMap(resp.body) # NoError
    THEN Ret(NilResult, parseError(decodeMap(resp.body)))
    ELSE Ret(StructResult(""), NoError)

ValidateEmail ==
    /\ pc = "idle"
    /\ \E ctx \in Contexts, data \in ValidationDatas :
           Invoke("ValidateEmail", ctx, data, NilResult,
                  ValidateEmailValidate(data), ValidateEmailRequest(data))

GetContentModerationValidate(content) ==
    IF content = ""
    THEN Errorf("%w: content is required", "ErrInvalidContent", << >>, << >>)
    ELSE NoError

GetContentModerationRequest(content) ==
    AddQuery(NewRequest("POST", "/experimental/content_moderation", NoReqBody),
             "content", content)

GetContentModeration ==
    /\ pc = "idle"
    /\ \E ctx \in Contexts, content \in Names :
           Invoke("GetContentModeration", ctx, content, NilResult,
                  GetContentModerationValidate(content),
                  GetContentModerationRequest(content))

GetGenderValidate(fullName) ==
    IF fullName = ""
    THEN Errorf("%w: full name is required", "ErrInvalidName", << >>, << >>)
    ELSE NoError

GetGenderRequest(fullName) ==
    AddQuery(NewRequest("POST", "/experimental/gender", NoReqBody), "name", fullName)

GetGender ==
    /\ pc = "idle"
    /\ \E ctx \in Contexts, fullName \in Names :
           Invoke("GetGender", ctx, fullName, NilResult,
                  GetGenderValidate(fullName), GetGenderRequest(fullName))

GeoLocateIPValidate(ipAddress) ==
    IF ~ParseIP(ipAddress) THEN invalidIP(ipAddress) ELSE NoError

GeoLocateIPRequestPost(ipAddress) ==
    AddQuery(NewRequest("POST", "/experimental/geolocation", NoReqBody),
             "ip", ipAddress)
GeoLocateIPRequest(ipAddress) ==
    AddQuery(NewRequest("GET", "/experimental/geolocation", NoReqBody),
             "ip", ipAddress)

GeoLocateIP ==
    /\ pc = "idle"
    /\ \E ctx \in Contexts, ipAddress \in IPStrings :
           Invoke("GeoLocateIP", ctx, ipAddress, NilResult,
                  GeoLocateIPValidate(ipAddress), GeoLocateIPRequest(ipAddress))

(***************************************************************************)
(* Construction and transport substitution.                                *)
(***************************************************************************)
\* the Configs NewClient is given: each credential empty or not, two site
\* identifiers, and a negative, zero and two positive timeouts (in seconds)
Timeouts == {-1, 0, 5, 10}
Configs ==
    [PublishableKey : {"", "pk"}, SecretKey : {"", "sk"},
     SiteUUID : {"", "site", "site2"}, Timeout : Timeouts]

NilConfig == [PublishableKey |-> "", SecretKey |-> "", SiteUUID |-> "", Timeout |-> 0]
\* the nil *Client
NilClient == [baseURL |-> "", httpClient |-> NilTransport, config |-> NilConfig]

\* the frame of a goroutine that is in no call
IdleFrame ==
    Frame("idle", NoCall, NilClient, NoRequest, NilTransport, NoOutcome, NilResult,
          NoError, FALSE)

\* config.PublishableKey == "" || config.SecretKey == "" || config.SiteUUID == ""
missingCredentialLax(config) == config.PublishableKey = ""
missingCredential(config) ==
    config.PublishableKey = "" \/ config.SecretKey = "" \/ config.SiteUUID = ""

\* if config.Timeout == 0 { config.Timeout = 10 * time.Second }
defaultTimeoutKept(t) == t
defaultTimeout(t) == IF t = 0 THEN 10 ELSE t

\* the client and the error NewClient returns
NewClient(config) ==
    IF missingCredential(config)
    THEN [client |-> NilClient, err |-> Sentinel("ErrInvalidConfig")]
    ELSE IF config.Timeout < 0
    THEN [client |-> NilClient,
          err |-> Errorf("timeout must be non-negative", "none", << >>, << >>)]
    ELSE LET cfg == [config EXCEPT !.Timeout = defaultTimeout(@)]
         IN  [client |-> [baseURL |-> BaseURL,
                          httpClient |-> DefaultTransport(cfg.Timeout),
                          config |-> cfg],
              err |-> NoError]

\* a pointer to a Client
ClientResult == Result("client", 0, "")

\* a call that does not go through Client.do
Direct(op, input, res, e) ==
    /\ call' = [op |-> op, ctx |-> "live", input |-> input]
    /\ result' = res
    /\ err' = e
    /\ request' = NoRequest
    /\ doCalls' = 0
    /\ doer' = NilTransport
    /\ outcome' = NoOutcome
    /\ closed' = 0
    /\ pc' = "done"
    /\ UNCHANGED frames

\* client, err := NewClient(config): the caller goes on with the client it
\* got, and keeps the one it had when construction failed
CallNewClient ==
    /\ pc = "idle"
    /\ \E config \in Configs :
        LET r == NewClient(config)
        IN  /\ Direct("NewClient", config,
                      IF r.err = NoError THEN ClientResult ELSE NilResult, r.err)
            /\ client' = IF r.err = NoError THEN r.client ELSE client

\* the client after SetHTTPClient and the error it returns
SetHTTPClientUnchecked(c, t) ==
    [client |-> [c EXCEPT !.httpClient = t], err |-> NoError]
SetHTTPClient(c, t) ==
    IF t = NilTransport
    THEN [client |-> c,
          err |-> Errorf("HTTP client cannot be nil", "none", << >>, << >>)]
    ELSE [client |-> [c EXCEPT !.httpClient = t], err |-> NoError]

\* err := client.SetHTTPClient(t), on a client that was constructed
CallSetHTTPClient ==
    /\ pc = "idle"
    /\ client # NilClient
    /\ \E t \in MockTransports \cup {NilTransport} :
        LET r == SetHTTPClient(client, t)
        IN  /\ Direct("SetHTTPClient", t, NilResult, r.err)
            /\ client' = r.client

(***************************************************************************)
(* The rest of every operation, run when the transport's Do returns:       *)
(* "resp, err := c.do(req); if err != nil { return nil, err }", the        *)
(* deferred resp.Body.Close(), the status check and the decoding.          *)
(***************************************************************************)
Respond(c, resp) ==
    CASE c.op = "GetTags" -> GetTagsResponse(resp)
      [] c.op = "CreateTag" -> CreateTagResponse(resp)
      [] c.op = "GetFields" -> GetFieldsResponse(resp)
      [] c.op = "CreateField" -> CreateFieldResponse(resp)
      [] c.op = "FindSubscriber" -> FindSubscriberResponse(c.input, resp)
      [] c.op = "CreateSubscriber" -> CreateSubscriberResponse(resp)
      [] c.op = "ImportSubscribers" -> ImportSubscribersResponse(resp)
      [] c.op = "TrackEvent" -> TrackEventResponse(resp)
      [] c.op = "SubscriberCommand" -> SubscriberCommandResponse(resp)
      [] c.op = "CreateEmails" -> CreateEmailsResponse(resp)
      [] c.op = "GetBroadcasts" -> GetBroadcastsResponse(resp)
      [] c.op = "CreateBroadcast" -> CreateBroadcastResponse(resp)
      [] c.op = "GetSiteStats" -> mapResponse(resp)
      [] c.op = "GetSegmentStats" -> mapResponse(resp)
      [] c.op = "GetReportStats" -> mapResponse(resp)
      [] c.op = "GetBlacklistStatus" -> mapResponse(resp)
      [] c.op = "ValidateEmail" -> ValidateEmailResponse(resp)
      [] c.op = "GetContentModeration" -> mapResponse(resp)
      [] c.op = "GetGender" -> mapResponse(resp)
      [] c.op = "GeoLocateIP" -> mapResponse(resp)

TransportReturnRetrying ==
    /\ pc = "inflight"
    /\ \E out \in TransportOutcomes :
        LET r == doReturn(out)
            ret == IF r.err # NoError THEN Ret(result, r.err) ELSE Respond(call, r)
            again == ret.err # NoError /\ doCalls < 2
        IN  /\ outcome' = out
            /\ result' = ret.result
            /\ err' = ret.err
            /\ closed' = IF r.err # NoError THEN 0 ELSE 1
            /\ pc' = IF again THEN "inflight" ELSE "done"
            /\ doCalls' = IF again THEN doCalls + 1 ELSE doCalls
    /\ UNCHANGED <<client, call, request, doer, frames>>
TransportReturn ==
    /\ pc = "inflight"
    /\ \E out \in TransportOutcomes :
        LET r == doReturn(out)
            ret == IF r.err # NoError THEN Ret(result, r.err) ELSE Respond(call, r)
        IN  /\ outcome' = out
            /\ result' = ret.result
            /\ err' = ret.err
            /\ closed' = IF r.err # NoError THEN 0 ELSE 1
    /\ pc' = "done"
    /\ UNCHANGED <<client, call, request, doCalls, doer, frames>>

\* the caller has the result; the call's frame is gone
Return ==
    /\ pc = "done"
    /\ pc' = "idle"
    /\ call' = NoCall
    /\ request' = NoRequest
    /\ doCalls' = 0
    /\ outcome' = NoOutcome
    /\ result' = NilResult
    /\ err' = NoError
    /\ closed' = 0
    /\ doer' = NilTransport
    /\ UNCHANGED <<client, frames>>

\* the state after setupTestClient: NewClient succeeded on TestConfig and
\* SetHTTPClient installed the test's transport
Init ==
    /\ client = [baseURL |-> BaseURL, httpClient |-> MockTransport(1),
                 config |-> TestConfig]
    /\ pc = "idle"
    /\ call = NoCall
    /\ request = NoRequest
    /\ doCalls = 0
    /\ outcome = NoOutcome
    /\ result = NilResult
    /\ err = NoError
    /\ closed = 0
    /\ doer = NilTransport
    /\ frames = [p \in Procs |-> IdleFrame]

Next ==
    \/ GetTags
    \/ CreateTag
    \/ GetFields
    \/ CreateField
    \/ FindSubscriber
    \/ CreateSubscriber
    \/ ImportSubscribers
    \/ TrackEvent
    \/ SubscriberCommand
    \/ CreateEmails
    \/ GetBroadcasts
    \/ CreateBroadcast
    \/ GetSiteStats
    \/ GetSegmentStats
    \/ GetReportStats
    \/ GetBlacklistStatus
    \/ ValidateEmail
    \/ GetContentModeration
    \/ GetGender
    \/ GeoLocateIP
    \/ CallSetHTTPClient
    \/ TransportReturn
    \/ Return

Spec == Init /\ [][Next]_vars

(***************************************************************************)
(* Construction on its own: the program starts without a client, builds    *)
(* clients with NewClient and replaces their transport.                    *)
(***************************************************************************)
SetupInit ==
    /\ client = NilClient
    /\ pc = "idle"
    /\ call = NoCall
    /\ request = NoRequest
    /\ doCalls = 0
    /\ outcome = NoOutcome
    /\ result = NilResult
    /\ err = NoError
    /\ closed = 0
    /\ doer = NilTransport
    /\ frames = [p \in Procs |-> IdleFrame]

SetupNext ==
    \/ CallNewClient
    \/ CallSetHTTPClient
    \/ Return

SetupSpec == SetupInit /\ [][SetupNext]_vars

(***************************************************************************)
(* The validated NewClient (src/types_test.go:859-904).  It names the      *)
(* missing credentials, then checks the length of each credential without  *)
(* the double quotes around it, then the timeout.  A credential here is a  *)
(* sequence of characters, so that its length and its quotes are there.    *)
(***************************************************************************)
MinKeyLength == 28
MaxKeyLength == 36

\* a credential of n characters, and a credential in double quotes
Key(n) == [i \in 1..n |-> "k"]
Quoted(s) == <<"\"">> \o s \o <<"\"">>

\* the credentials NewClient is given: none, the lengths around both
\* limits, and quoted ones whose length is within the limits only with or
\* only without the quotes
ValidatedKeys ==
    {<< >>, Key(MinKeyLength - 1), Key(MinKeyLength), Key(MaxKeyLength),
     Key(MaxKeyLength + 1), Quoted(Key(MinKeyLength - 1)),
     Quoted(Key(MaxKeyLength)), Quoted(<< >>)}

ValidatedConfigs ==
    [PublishableKey : ValidatedKeys, SecretKey : ValidatedKeys,
     SiteUUID : ValidatedKeys, Timeout : {-1, 0, 5}]

\* strings.Trim(s, "\""): s without its leading and trailing double quotes
RECURSIVE Trim(_)
Trim(s) ==
    IF s # << >> /\ Head(s) = "\"" THEN Trim(Tail(s))
    ELSE IF s # << >> /\ s[Len(s)] = "\"" THEN Trim(SubSeq(s, 1, Len(s) - 1))
    ELSE s

\* the names appended to missingFields
missingFields(config) ==
    SelectSeq(<<"PublishableKey", "SecretKey", "SiteUUID">>,
              LAMBDA f : config[f] = << >>)

\* l < 28 || l > 36
keyLengthOutOfRangeExclusive(l) == l <= MinKeyLength \/ l > MaxKeyLength
keyLengthOutOfRange(l) == l < MinKeyLength \/ l > MaxKeyLength

\* the client and the error the validated NewClient returns
NewClientValidated(config) ==
    LET failed(e) == [client |-> NilClient, err |-> e]
        lp == Len(Trim(config.PublishableKey))
        lk == Len(Trim(config.SecretKey))
        lu == Len(Trim(config.SiteUUID))
    IN  IF Len(missingFields(config)) > 0
        THEN failed(Errorf("%w: %s", "ErrInvalidConfig", << >>,
                           missingFields(config)))
        ELSE IF keyLengthOutOfRange(lp)
        THEN failed(Errorf(
                 "%w: PublishableKey must be between 28 and 36 characters (got %d)",
                 "ErrInvalidKeyLength", <<lp>>, << >>))
        ELSE IF keyLengthOutOfRange(lk)
        THEN failed(Errorf(
                 "%w: SecretKey must be between 28 and 36 characters (got %d)",
                 "ErrInvalidKeyLength", <<lk>>, << >>))
        ELSE IF keyLengthOutOfRange(lu)
        THEN failed(Errorf(
                 "%w: SiteUUID must be between 28 and 36 characters (got %d)",
                 "ErrInvalidKeyLength", <<lu>>, << >>))
        ELSE IF config.Timeout < 0
        THEN failed(Errorf("timeout must be non-negative", "none", << >>, << >>))
        ELSE LET cfg == [config EXCEPT !.Timeout = defaultTimeout(@)]
             IN  [client |-> [baseURL |-> BaseURL,
                              httpClient |-> DefaultTransport(cfg.Timeout),
                              config |-> cfg],
                  err |-> NoError]

CallNewClientValidated ==
    /\ pc = "idle"
    /\ \E config \in ValidatedConfigs :
        LET r == NewClientValidated(config)
        IN  /\ Direct("NewClient", config,
                      IF r.err = NoError THEN ClientResult ELSE NilResult, r.err)
            /\ client' = IF r.err = NoError THEN r.client ELSE client

ValidatedNext ==
    \/ CallNewClientValidated
    \/ Return

ValidatedSpec == SetupInit /\ [][ValidatedNext]_vars

(***************************************************************************)
(* Concurrent callers.  Goroutines share the client; each runs one call at *)
(* a time, in the steps at which the code reads or writes the Client:      *)
(* the operation's prologue (validation and request building, which reads  *)
(* c.baseURL), the first part of Client.do (context check and request      *)
(* preparation, which reads c.config), the call c.httpClient.Do(req)       *)
(* (which reads c.httpClient), the return of Do, and the return to the     *)
(* caller.  SetHTTPClient runs in two steps: the nil check and the         *)
(* assignment to c.httpClient.  Nothing synchronizes these accesses, so a  *)
(* read of c.httpClient by a call that was under way when another          *)
(* goroutine assigned it is a data race: it yields the old value, the new  *)
(* value or a torn interface value, on which the call of Do crashes.  Two  *)
(* assignments under way together race as well.                            *)
(***************************************************************************)
\* an interface value whose two words come from different assignments
TornTransport == Transport("torn", 0, 0)

\* the request an operation builds for its input
BuildRequest(c) ==
    CASE c.op = "GetTags" -> GetTagsRequest
      [] c.op = "FindSubscriber" -> FindSubscriberRequest(c.input)
      [] c.op = "CreateEmails" -> CreateEmailsRequest(c.input)

\* the error of an operation's validation of its input, and the result it
\* returns beside an error
Validate(c) ==
    CASE c.op = "GetTags" -> NoError
      [] c.op = "FindSubscriber" -> FindSubscriberValidate(c.input)
      [] c.op = "CreateEmails" -> CreateEmailsValidate(c.input)
Zero(c) == IF c.op = "CreateEmails" THEN IntResult(0) ELSE NilResult

\* the calls the goroutines make: two that reach the transport, one stopped
\* by its context and one stopped by validation
ConcCalls ==
    {[op |-> "GetTags", ctx |-> x, input |-> << >>] : x \in {"live", "canceled"}}
        \cup {[op |-> "FindSubscriber", ctx |-> "live", input |-> <<"a">>],
              [op |-> "CreateEmails", ctx |-> "live", input |-> <<ValidEmailData>>]}

\* what the transports answer
ConcOutcomes ==
    {Outcome(Sentinel("connection reset by peer"), 0, NoBody),
     Outcome(NoError, StatusOK, Body("object", JNum(1), Absent, Absent, Absent))}

\* the prologue of an operation: validation, then the building of the request
Begin(p) ==
    /\ frames[p].pc = "idle"
    /\ \E c \in ConcCalls :
        frames' = [frames EXCEPT ![p] =
            IF Validate(c) # NoError
            THEN Frame("done", c, client, NoRequest, NilTransport, NoOutcome,
                       Zero(c), Validate(c), FALSE)
            ELSE Frame("built", c, client, BuildRequest(c), NilTransport, NoOutcome,
                       Zero(c), NoError, FALSE)]
    /\ UNCHANGED <<client, pc, call, request, doCalls, outcome, result, err, closed,
                   doer>>

\* Client.do up to the call of Do: the context check and the preparation
doBeforeSendWriting(p) ==
    /\ frames[p].pc = "built"
    /\ LET f == frames[p]
       IN  frames' = [frames EXCEPT ![p] =
               IF doContextErr(f.call.ctx) # NoError
               THEN [f EXCEPT !.pc = "done", !.err = doContextErr(f.call.ctx),
                              !.request = NoRequest]
               ELSE [f EXCEPT !.pc = "prepared", !.request = doPrepare(f.request)]]
    /\ client' = [client EXCEPT !.config.SiteUUID = "used"]
    /\ UNCHANGED <<pc, call, request, doCalls, outcome, result, err, closed, doer>>
doBeforeSend(p) ==
    /\ frames[p].pc = "built"
    /\ LET f == frames[p]
       IN  frames' = [frames EXCEPT ![p] =
               IF doContextErr(f.call.ctx) # NoError
               THEN [f EXCEPT !.pc = "done", !.err = doContextErr(f.call.ctx),
                              !.request = NoRequest]
               ELSE [f EXCEPT !.pc = "prepared", !.request = doPrepare(f.request)]]
    /\ UNCHANGED <<client, pc, call, request, doCalls, outcome, result, err, closed,
                   doer>>

\* c.httpClient.Do(req): the read of c.httpClient and the call
doSend(p) ==
    /\ frames[p].pc = "prepared"
    /\ \E via \in IF frames[p].raced
                  THEN {frames[p].startClient.httpClient, client.httpClient,
                        TornTransport}
                  ELSE {client.httpClient} :
        frames' = [frames EXCEPT ![p].doer = via,
                                 ![p].pc = IF via = TornTransport THEN "crashed"
                                           ELSE "inflight"]
    /\ UNCHANGED <<client, pc, call, request, doCalls, outcome, result, err, closed,
                   doer>>

\* Do returns, and the operation handles what it returned
doReturns(p) ==
    /\ frames[p].pc = "inflight"
    /\ \E out \in ConcOutcomes :
        LET r == doReturn(out)
            ret == IF r.err # NoError THEN Ret(frames[p].result, r.err)
                   ELSE Respond(frames[p].call, r)
        IN  frames' = [frames EXCEPT ![p].pc = "done", ![p].outcome = out,
                                     ![p].result = ret.result, ![p].err = ret.err]
    /\ UNCHANGED <<client, pc, call, request, doCalls, outcome, result, err, closed,
                   doer>>

\* the caller has the result
Finish(p) ==
    /\ frames[p].pc = "done"
    /\ frames' = [frames EXCEPT ![p] = IdleFrame]
    /\ UNCHANGED <<client, pc, call, request, doCalls, outcome, result, err, closed,
                   doer>>

\* SetHTTPClient's nil check, for a replacement transport and for nil
SetHTTPClientCheck(p) ==
    /\ frames[p].pc = "idle"
    /\ \E t \in {MockTransport(MaxTransports), NilTransport} :
        LET c == [op |-> "SetHTTPClient", ctx |-> "live", input |-> t]
            e == SetHTTPClient(client, t).err
        IN  frames' = [frames EXCEPT ![p] =
                Frame(IF e # NoError THEN "done" ELSE "assigning", c, client,
                      NoRequest, NilTransport, NoOutcome, NilResult, e, FALSE)]
    /\ UNCHANGED <<client, pc, call, request, doCalls, outcome, result, err, closed,
                   doer>>

\* c.httpClient = client: the calls that have started and not yet read
\* c.httpClient race with this write
SetHTTPClientAssign(p) ==
    /\ frames[p].pc = "assigning"
    /\ \E t \in IF \E q \in Procs \ {p} : frames[q].pc = "assigning"
                THEN {frames[p].call.input, TornTransport}
                ELSE {frames[p].call.input} :
        client' = SetHTTPClient(client, t).client
    /\ frames' = [q \in Procs |->
            IF q = p THEN [frames[q] EXCEPT !.pc = "done"]
            ELSE IF frames[q].pc \in {"built", "prepared"}
            THEN [frames[q] EXCEPT !.raced = TRUE]
            ELSE frames[q]]
    /\ UNCHANGED <<pc, call, request, doCalls, outcome, result, err, closed, doer>>

ConcNext ==
    \E p \in Procs :
        \/ Begin(p)
        \/ doBeforeSend(p)
        \/ doSend(p)
        \/ doReturns(p)
        \/ Finish(p)
        \/ SetHTTPClientCheck(p)
        \/ SetHTTPClientAssign(p)

ConcSpec == Init /\ [][ConcNext]_vars

(***************************************************************************)
(* The strict Client.do (src/types_test.go:907-948).  It wraps the         *)
(* transport's error, and switches on the status itself: 200 and 201 hand  *)
(* the response to the operation, every other status returns a nil         *)
(* response and an error that wraps ErrAPIResponse.  The operation then    *)
(* runs as with the other Client.do: it returns the error it got, or       *)
(* defers the close of the body and checks the status and the body.  A     *)
(* response this do turns into an error never reaches the operation, so    *)
(* nothing closes its body.                                                *)
(***************************************************************************)
\* the switch on resp.StatusCode, for the statuses that are not 200 or 201
strictStatusErrorMerged(status) ==
    CASE status = 401 ->
           Errorf("%w: invalid authentication credentials (401)", "ErrAPIResponse",
                  << >>, << >>)
      [] status = 403 ->
           Errorf("%w: access forbidden (403)", "ErrAPIResponse", << >>, << >>)
      [] status = 404 ->
           Errorf("%w: resource not found (404)", "ErrAPIResponse", << >>, << >>)
      [] status = 400 ->
           Errorf("%w: invalid request parameters (400)", "ErrAPIResponse",
                  << >>, << >>)
      [] status = 429 ->
           Errorf("%w: rate limit exceeded (429)", "ErrAPIResponse", << >>, << >>)
      [] status \in {500, 503} ->
           Errorf("%w: server error (500)", "ErrAPIResponse", << >>, << >>)
      [] OTHER ->
           Errorf("%w: unexpected status code (%d)", "ErrAPIResponse", <<status>>,
                  << >>)
strictStatusError(status) ==
    CASE status = 401 ->
           Errorf("%w: invalid authentication credentials (401)", "ErrAPIResponse",
                  << >>, << >>)
      [] status = 403 ->
           Errorf("%w: access forbidden (403)", "ErrAPIResponse", << >>, << >>)
      [] status = 404 ->
           Errorf("%w: resource not found (404)", "ErrAPIResponse", << >>, << >>)
      [] status = 400 ->
           Errorf("%w: invalid request parameters (400)", "ErrAPIResponse",
                  << >>, << >>)
      [] status = 429 ->
           Errorf("%w: rate limit exceeded (429)", "ErrAPIResponse", << >>, << >>)
      [] status = 500 ->
           Errorf("%w: server error (500)", "ErrAPIResponse", << >>, << >>)
      [] status = 503 ->
           Errorf("%w: service unavailable (503)", "ErrAPIResponse", << >>, << >>)
      [] OTHER ->
           Errorf("%w: unexpected status code (%d)", "ErrAPIResponse", <<status>>,
                  << >>)

\* what the strict Client.do returns for what the transport's Do returned
doStrictReturn(out) ==
    IF out.err # NoError
    THEN [out EXCEPT !.err = Errorf("request failed: %w", out.err.id, << >>, << >>)]
    ELSE IF out.status \in {StatusOK, StatusCreated} THEN out
    ELSE Outcome(strictStatusError(out.status), 0, NoBody)

\* the transport's Do returns to the strict Client.do, and the operation
\* handles what do returned
StrictTransportReturn ==
    /\ pc = "inflight"
    /\ \E out \in TransportOutcomes :
        LET r == doStrictReturn(out)
            ret == IF r.err # NoError THEN Ret(result, r.err) ELSE Respond(call, r)
        IN  /\ outcome' = out
            /\ result' = ret.result
            /\ err' = ret.err
            /\ closed' = IF r.err # NoError THEN 0 ELSE 1
    /\ pc' = "done"
    /\ UNCHANGED <<client, call, request, doCalls, doer, frames>>

StrictNext ==
    \/ GetTags
    \/ CreateTag
    \/ FindSubscriber
    \/ CreateSubscriber
    \/ ImportSubscribers
    \/ TrackEvent
    \/ CreateEmails
    \/ GetSiteStats
    \/ ValidateEmail
    \/ StrictTransportReturn
    \/ Return

StrictSpec == Init /\ [][StrictNext]_vars

(***************************************************************************)
(* Vocabulary of the properties below.                                     *)
(***************************************************************************)
Operations ==
    {"GetTags", "CreateTag", "GetFields", "CreateField", "FindSubscriber",
     "CreateSubscriber", "ImportSubscribers", "TrackEvent", "SubscriberCommand",
     "CreateEmails", "GetBroadcasts", "CreateBroadcast", "GetSiteStats",
     "GetSegmentStats", "GetReportStats", "GetBlacklistStatus", "ValidateEmail",
     "GetContentModeration", "GetGender", "GeoLocateIP"}

\* the result an operation returns beside an error
ZeroResult(op) == IF op = "CreateEmails" THEN IntResult(0) ELSE NilResult

\* the error of the operation's validation on the call's input
ValidationError(c) ==
    CASE c.op \in {"GetTags", "GetFields", "GetBroadcasts", "GetSiteStats"} -> NoError
      [] c.op = "CreateTag" -> CreateTagValidate(c.input)
      [] c.op = "CreateField" -> CreateFieldValidate(c.input)
      [] c.op = "FindSubscriber" -> FindSubscriberValidate(c.input)
      [] c.op = "CreateSubscriber" -> CreateSubscriberValidate(c.input)
      [] c.op = "ImportSubscribers" -> ImportSubscribersValidate(c.input)
      [] c.op = "TrackEvent" -> TrackEventValidate(c.input)
      [] c.op = "SubscriberCommand" -> SubscriberCommandValidate(c.input)
      [] c.op = "CreateEmails" -> CreateEmailsValidate(c.input)
      [] c.op = "CreateBroadcast" -> CreateBroadcastValidate(c.input)
      [] c.op = "GetSegmentStats" -> GetSegmentStatsValidate(c.input)
      [] c.op = "GetReportStats" -> GetReportStatsValidate(c.input)
      [] c.op = "GetBlacklistStatus" -> GetBlacklistStatusValidate(c.input)
      [] c.op = "ValidateEmail" -> ValidateEmailValidate(c.input)
      [] c.op = "GetContentModeration" -> GetContentModerationValidate(c.input)
      [] c.op = "GetGender" -> GetGenderValidate(c.input)
      [] c.op = "GeoLocateIP" -> GeoLocateIPValidate(c.input)

\* a call is under way or has returned
Called == pc \in {"inflight", "done"}
\* the call returned without the transport having been invoked
ReturnedWithoutSending == pc = "done" /\ doCalls = 0 /\ request = NoRequest
\* the call got past validation: its request went to the transport, or a
\* context that was already done stopped it inside Client.do
PassedValidation ==
    \/ call.ctx = "live" /\ doCalls = 1 /\ request # NoRequest
    \/ call.ctx # "live" /\ ReturnedWithoutSending /\ err = ctxErr(call.ctx)
\* the transport answered this call with a response of the given status
Answered(status) ==
    pc = "done" /\ outcome.err = NoError /\ outcome.status = status

(***************************************************************************)
(* C1.  An operation called with valid input and a context that is already *)
(* cancelled or past its deadline returns the context's own error value    *)
(* (context.Canceled or context.DeadlineExceeded itself, not a wrapper)    *)
(* with a zero result, and the transport's Do is never invoked: the call   *)
(* is never in flight and no request was handed over.                      *)
(***************************************************************************)
C1_PreCancelledReturnsContextError ==
    (Called /\ call.op \in Operations /\ call.ctx # "live"
        /\ ValidationError(call) = NoError)
    => /\ ReturnedWithoutSending
       /\ err = ctxErr(call.ctx)
       /\ err \in {Sentinel("context.Canceled"), Sentinel("context.DeadlineExceeded")}
       /\ result = ZeroResult(call.op)
       /\ outcome = NoOutcome

\* CreateEmails, called with a valid batch after the deadline passed
C1_Witness ==
    /\ pc = "done"
    /\ call.op = "CreateEmails"
    /\ call.input = <<ValidEmailData>>
    /\ call.ctx = "deadline"
    /\ err = Sentinel("context.DeadlineExceeded")
    /\ doCalls = 0

MalformedEmail(s) ==
    \/ Len(s) = 0
    \/ \A i \in 1..Len(s) : s[i] = " "
    \/ \A i \in 1..Len(s) : s[i] # "@"

EmailOperations ==
    {"FindSubscriber", "CreateSubscriber", "ImportSubscribers", "TrackEvent",
     "SubscriberCommand", "CreateEmails", "CreateBroadcast", "ValidateEmail"}

\* some email string of the call's input is malformed
SomeEmailMalformed(c) ==
    CASE c.op = "FindSubscriber" -> MalformedEmail(c.input)
      [] c.op = "CreateSubscriber" -> MalformedEmail(c.input.Email)
      [] c.op \in {"ImportSubscribers", "TrackEvent", "SubscriberCommand"} ->
            \E i \in 1..Len(c.input) : MalformedEmail(c.input[i].Email)
      [] c.op = "CreateEmails" ->
            \E i \in 1..Len(c.input) :
                MalformedEmail(c.input[i].To) \/ MalformedEmail(c.input[i].From)
      [] c.op = "CreateBroadcast" ->
            \E i \in 1..Len(c.input) : MalformedEmail(c.input[i].From.Email)
      [] c.op = "ValidateEmail" -> MalformedEmail(c.input.EmailAddress)
      [] OTHER -> FALSE

\* everything of the call's input except its email strings is valid
RestOfInputValid(c) ==
    CASE c.op = "TrackEvent" -> \A i \in 1..Len(c.input) : c.input[i].Type # ""
      [] c.op = "SubscriberCommand" ->
            \A i \in 1..Len(c.input) :
                c.input[i].Query # "" /\ c.input[i].Command \in CommandTypes
      [] c.op = "CreateEmails" ->
            /\ Len(c.input) <= MaxEmailsPerRequest
            /\ \A i \in 1..Len(c.input) :
                c.input[i].Subject # "" /\ c.input[i].HTMLBody # ""
      [] c.op = "CreateBroadcast" ->
            \A i \in 1..Len(c.input) :
                /\ c.input[i].Name # ""
                /\ c.input[i].Subject # ""
                /\ c.input[i].Content # ""
                /\ c.input[i].BatchSizePerHour > 0
      [] OTHER -> TRUE

(***************************************************************************)
(* C3 as claimed: for every email-accepting operation and every input in   *)
(* which some email string is malformed, the operation fails with an error *)
(* matching ErrInvalidEmail and the transport is never invoked.            *)
(***************************************************************************)
C3_AnyMalformedEmailGivesInvalidEmail ==
    (Called /\ call.op \in EmailOperations /\ SomeEmailMalformed(call))
    => ReturnedWithoutSending /\ Is(err, "ErrInvalidEmail")

(***************************************************************************)
(* C3 as amended: for every email-accepting operation and every input in   *)
(* which some email string is malformed, the operation fails locally and   *)
(* the transport is never invoked; the error matches ErrInvalidEmail       *)
(* whenever the rest of the input is valid (another invalid part of the    *)
(* input that is checked first is reported instead).                       *)
(***************************************************************************)
C3_MalformedEmailRejectedLocally ==
    (Called /\ call.op \in EmailOperations /\ SomeEmailMalformed(call))
    => /\ ReturnedWithoutSending
       /\ err # NoError
       /\ result = ZeroResult(call.op)
       /\ RestOfInputValid(call) => Is(err, "ErrInvalidEmail")

\* CreateBroadcast with an otherwise valid broadcast whose sender is blank
C3_Witness ==
    /\ pc = "done"
    /\ call.op = "CreateBroadcast"
    /\ call.input = <<[Name |-> "x", Subject |-> "x", Content |-> "x",
                       From |-> [Email |-> <<" ">>], BatchSizePerHour |-> 1]>>
    /\ Is(err, "ErrInvalidEmail")
    /\ doCalls = 0

(***************************************************************************)
(* C4.  The IP string an operation is given, if it takes one.              *)
(***************************************************************************)
IPOperations == {"GeoLocateIP", "GetBlacklistStatus", "ValidateEmail"}

\* the call's IP string is malformed in the claim's sense: non-parsable for
\* GeoLocateIP, non-empty and non-parsable for the other two
MalformedIPGiven(c) ==
    CASE c.op = "GeoLocateIP" -> ~ParseIP(c.input)
      [] c.op \in {"GetBlacklistStatus", "ValidateEmail"} ->
            c.input.IPAddress # << >> /\ ~ParseIP(c.input.IPAddress)
      [] OTHER -> FALSE

(***************************************************************************)
(* C4 as claimed: for every operation that takes an IP address, a          *)
(* malformed IP string makes the operation fail with an error matching     *)
(* ErrInvalidIPAddress without invoking the transport.                     *)
(***************************************************************************)
C4_MalformedIPGivesInvalidIPAddress ==
    (Called /\ call.op \in IPOperations /\ MalformedIPGiven(call))
    => ReturnedWithoutSending /\ Is(err, "ErrInvalidIPAddress")

(***************************************************************************)
(* C4 as amended: a malformed IP string makes the operation fail locally,  *)
(* without invoking the transport; the error matches ErrInvalidIPAddress   *)
(* for GeoLocateIP and GetBlacklistStatus always, and for ValidateEmail    *)
(* when its email address parses (ValidateEmail checks the email first and *)
(* reports ErrInvalidEmail for it).                                        *)
(***************************************************************************)
C4_MalformedIPRejectedLocally ==
    (Called /\ call.op \in IPOperations /\ MalformedIPGiven(call))
    => /\ ReturnedWithoutSending
       /\ result = NilResult
       /\ IF call.op = "ValidateEmail" /\ ~ParseAddress(call.input.EmailAddress)
          THEN Is(err, "ErrInvalidEmail")
          ELSE Is(err, "ErrInvalidIPAddress")

\* ValidateEmail with a valid email and a three-field dotted IP
C4_Witness ==
    /\ pc = "done"
    /\ call.op = "ValidateEmail"
    /\ call.input.EmailAddress = ValidEmail
    /\ call.input.IPAddress = <<"1", ".", "1", ".", "1">>
    /\ Is(err, "ErrInvalidIPAddress")
    /\ doCalls = 0

(***************************************************************************)
(* C5.  An email every part of which CreateEmails accepts.                 *)
(***************************************************************************)
ValidEmailItem(e) ==
    /\ ParseAddress(e.To)
    /\ ParseAddress(e.From)
    /\ e.Subject # ""
    /\ e.HTMLBody # ""

(***************************************************************************)
(* C5.  CreateEmails enforces the batch cap at exactly 60: every batch of  *)
(* more than 60 emails (61 in particular) is rejected locally, with the    *)
(* error "maximum of 60 emails allowed per request" (it wraps              *)
(* ErrInvalidRequest), a zero count and no call of the transport, whatever *)
(* its items are; every batch of 1 to 60 emails (60 in particular) whose   *)
(* items are all valid passes validation and, the context being live, is   *)
(* handed to the transport once as one POST to /batch/emails whose body    *)
(* carries the whole batch.                                                *)
(***************************************************************************)
C5_EmailBatchCapIsSixty ==
    (Called /\ call.op = "CreateEmails")
    => /\ Len(call.input) > 60
          => /\ ReturnedWithoutSending
             /\ result = IntResult(0)
             /\ Is(err, "ErrInvalidRequest")
             /\ err.msg = "%w: maximum of 60 emails allowed per request"
       /\ (/\ Len(call.input) \in 1..60
           /\ \A i \in 1..Len(call.input) : ValidEmailItem(call.input[i]))
          => /\ PassedValidation
             /\ call.ctx = "live"
                => /\ doCalls = 1
                   /\ request.method = "POST"
                   /\ request.path = "/batch/emails"
                   /\ request.body = JSONBody("emails", call.input)

\* a batch of exactly 60 valid emails is with the transport
C5_Witness ==
    /\ pc = "inflight"
    /\ call.op = "CreateEmails"
    /\ Len(call.input) = 60
    /\ \A i \in 1..60 : ValidEmailItem(call.input[i])
    /\ doCalls = 1
    /\ request.method = "POST"
    /\ request.path = "/batch/emails"

(***************************************************************************)
(* C6.  The batch operations, and a response that carries a decodable      *)
(* envelope: HTTP 200 and a JSON object whose results and failed members   *)
(* are numbers or absent.                                                  *)
(***************************************************************************)
BatchOperations == {"ImportSubscribers", "TrackEvent", "SubscriberCommand"}

DecodableEnvelope(out) ==
    /\ out.err = NoError
    /\ out.status = 200
    /\ out.body.top = "object"
    /\ out.body.results.t \in {"absent", "num"}
    /\ out.body.failed.t \in {"absent", "num"}

(***************************************************************************)
(* C6.  For ImportSubscribers, TrackEvent and SubscriberCommand: when the  *)
(* transport returns HTTP 200 with a decodable envelope, the operation     *)
(* returns a non-nil error if the envelope's failed count is greater than  *)
(* 0, whatever its results count is, and nil if failed is 0 or absent.     *)
(***************************************************************************)
C6_FailedCountIsAnError ==
    (pc = "done" /\ call.op \in BatchOperations /\ DecodableEnvelope(outcome))
    => IF outcome.body.failed.t = "num" /\ outcome.body.failed.n > 0
       THEN err # NoError /\ ~Is(err, "ErrAPIResponse")
       ELSE err = NoError

\* ImportSubscribers answered 200 with results = 1 and failed = 1
C6_Witness ==
    /\ pc = "done"
    /\ call.op = "ImportSubscribers"
    /\ outcome.status = 200
    /\ outcome.body.results = JNum(1)
    /\ outcome.body.failed = JNum(1)
    /\ err # NoError

(***************************************************************************)
(* C7.  FindSubscriber, given a valid email and an HTTP 200 response whose *)
(* JSON decodes (an object whose data member is an object or absent),      *)
(* returns a nil subscriber and the error "subscriber not found: <email>"  *)
(* when data.id is empty, and the subscriber with a nil error when data.id *)
(* is non-empty; it returns a non-nil subscriber in no other case.         *)
(***************************************************************************)
C7_EmptyIdIsNotFound ==
    (pc = "done" /\ call.op = "FindSubscriber")
    => /\ (/\ outcome.err = NoError
           /\ outcome.status = 200
           /\ outcome.body.top = "object"
           /\ outcome.body.data.t \in {"absent", "obj"})
          => IF outcome.body.data.s = ""
             THEN /\ result = NilResult
                  /\ err.msg = "subscriber not found: %s"
                  /\ err.text = call.input
                  /\ ~Is(err, "ErrAPIResponse")
             ELSE /\ result = StructResult(outcome.body.data.s)
                  /\ err = NoError
       /\ result # NilResult
          => /\ err = NoError
             /\ outcome.status = 200
             /\ outcome.body.data.t = "obj"
             /\ outcome.body.data.s # ""

\* a 200 response whose data object has an empty id
C7_Witness ==
    /\ pc = "done"
    /\ call.op = "FindSubscriber"
    /\ call.input = ValidEmail
    /\ outcome.status = 200
    /\ outcome.body.data = JObj("")
    /\ result = NilResult
    /\ err.msg = "subscriber not found: %s"

(***************************************************************************)
(* C8.  The 8 command kinds the claim lists.                               *)
(***************************************************************************)
FixedCommandKinds ==
    {"add_tag", "add_tag_via_event", "remove_tag", "add_field", "remove_field",
     "subscribe", "unsubscribe", "change_email"}

(***************************************************************************)
(* C8.  SubscriberCommand, called with commands that all have a valid      *)
(* email and a non-empty query, passes validation if and only if every     *)
(* Command is one of the 8 fixed kinds; any other value makes the whole    *)
(* call fail, before anything is sent, with the error "invalid command     *)
(* type", which matches ErrInvalidRequest.                                 *)
(***************************************************************************)
C8_CommandKindsAreTheEight ==
    (/\ Called
     /\ call.op = "SubscriberCommand"
     /\ Len(call.input) > 0
     /\ \A i \in 1..Len(call.input) :
            ParseAddress(call.input[i].Email) /\ call.input[i].Query # "")
    => IF \A i \in 1..Len(call.input) : call.input[i].Command \in FixedCommandKinds
       THEN PassedValidation
       ELSE /\ ReturnedWithoutSending
            /\ Is(err, "ErrInvalidRequest")
            /\ err.msg = "%w: invalid command type: %s"
            /\ err.text[1] \notin FixedCommandKinds
            /\ result = NilResult

\* a batch whose second command has an unknown kind
C8_Witness ==
    /\ pc = "done"
    /\ call.op = "SubscriberCommand"
    /\ Len(call.input) = 2
    /\ call.input[1] = [Command |-> "change_email", Email |-> ValidEmail, Query |-> "x"]
    /\ call.input[2] = [Command |-> "invalid_command", Email |-> ValidEmail,
                        Query |-> "x"]
    /\ Is(err, "ErrInvalidRequest")
    /\ doCalls = 0

(***************************************************************************)
(* C9.  For every operation and every response status among 400, 401,     *)
(* 403, 404, 429, 500 and 503, the operation returns an error that matches *)
(* ErrAPIResponse and carries exactly that status code (so that the errors *)
(* of two codes differ), and returns no result.                            *)
(***************************************************************************)
C9_ErrorStatusGivesAPIResponseError ==
    (/\ pc = "done"
     /\ call.op \in Operations
     /\ outcome.err = NoError
     /\ outcome.status \in {400, 401, 403, 404, 429, 500, 503})
    => /\ Is(err, "ErrAPIResponse")
       /\ err.nums = <<outcome.status>>
       /\ result = ZeroResult(call.op)

\* CreateBroadcast answered 429
C9_Witness ==
    /\ pc = "done"
    /\ call.op = "CreateBroadcast"
    /\ outcome.err = NoError
    /\ outcome.status = 429
    /\ Is(err, "ErrAPIResponse")
    /\ err.nums = <<429>>

(***************************************************************************)
(* C10.  The operations that decode a response body, the statuses each     *)
(* takes for success, and the bodies that do not decode into the shape     *)
(* each expects.                                                           *)
(***************************************************************************)
DecodingOperations == Operations \ {"CreateBroadcast"}

SuccessStatusOf(op) ==
    IF op \in {"CreateTag", "CreateField", "CreateSubscriber"}
    THEN {200, 201} ELSE {200}

Undecodable(op, body) ==
    \/ body.top # "object"
    \/ op \in BatchOperations
       /\ (body.results.t \notin {"absent", "num"}
           \/ body.failed.t \notin {"absent", "num"})
    \/ op = "CreateEmails" /\ body.results.t \notin {"absent", "num"}
    \/ op \in {"CreateTag", "CreateField", "FindSubscriber", "CreateSubscriber"}
       /\ body.data.t \notin {"absent", "obj"}
    \/ op \in {"GetTags", "GetFields"} /\ body.data.t \notin {"absent", "arr"}
    \/ op = "GetBroadcasts" /\ body.broadcasts.t \notin {"absent", "arr"}

(***************************************************************************)
(* C10 as claimed: for every operation that decodes a response body, when  *)
(* the status is a success status but the body cannot be decoded into the  *)
(* operation's expected shape, the operation returns an error that matches *)
(* ErrAPIResponse and carries the status code, and no partial result.      *)
(***************************************************************************)
C10_DecodeFailureIsAPIResponseError ==
    (/\ pc = "done"
     /\ call.op \in DecodingOperations
     /\ outcome.err = NoError
     /\ outcome.status \in SuccessStatusOf(call.op)
     /\ Undecodable(call.op, outcome.body))
    => /\ Is(err, "ErrAPIResponse")
       /\ err.nums = <<outcome.status>>
       /\ result = ZeroResult(call.op)

(***************************************************************************)
(* C11.  For every public operation and every outcome (validation failure, *)
(* cancellation before dispatch, transport error, non-success status,      *)
(* decode failure, partial batch failure, subscriber not found): whenever  *)
(* the returned error is non-nil the returned result is nil (0 for         *)
(* CreateEmails); a non-nil or non-zero result is returned only together   *)
(* with a nil error.                                                       *)
(***************************************************************************)
C11_ErrorMeansNoResult ==
    (pc = "done" /\ call.op \in Operations)
    => /\ err # NoError => result = ZeroResult(call.op)
       /\ result \notin {NilResult, IntResult(0)} => err = NoError

\* FindSubscriber returned "not found" for a decoded 200 response, with nil
C11_Witness ==
    /\ pc = "done"
    /\ call.op = "FindSubscriber"
    /\ outcome.err = NoError
    /\ outcome.status = 200
    /\ outcome.body.data.t = "obj"
    /\ err # NoError
    /\ result = NilResult

C13_EveryRequestIsAuthenticated ==
    (doCalls > 0 \/ request # NoRequest)
    => /\ call.op \in Operations
       /\ request # NoRequest
       /\ request.auth = <<client.config.PublishableKey, client.config.SecretKey>>
       /\ request.auth[1] # "" /\ request.auth[2] # ""
       /\ request.accept = "application/json"
       /\ request.contentType = "application/json"
       /\ request.userAgent = <<"bento-go-", client.config.SiteUUID>>
       /\ "site_uuid" \in DOMAIN request.query
       /\ request.query["site_uuid"] = client.config.SiteUUID

\* GetSegmentStats's request is with the transport, carrying its own query
\* parameter beside site_uuid
C13_Witness ==
    /\ pc = "inflight"
    /\ call.op = "GetSegmentStats"
    /\ doCalls = 1
    /\ DOMAIN request.query = {"segment_id", "site_uuid"}
    /\ request.auth = <<"pk", "sk">>
    /\ request.userAgent = <<"bento-go-", "site">>

(***************************************************************************)
(* C14.  NewClient: for every Config in which at least one of              *)
(* PublishableKey, SecretKey and SiteUUID is empty (whatever its timeout), *)
(* construction returns a nil client and an error matching                 *)
(* ErrInvalidConfig; for every Config with all three present and a         *)
(* non-negative timeout, it returns a non-nil client and a nil error, the  *)
(* client holding the three credentials it was given.                      *)
(***************************************************************************)
C14_NewClientRequiresCredentials ==
    (pc = "done" /\ call.op = "NewClient")
    => IF \/ call.input.PublishableKey = ""
          \/ call.input.SecretKey = ""
          \/ call.input.SiteUUID = ""
       THEN result = NilResult /\ Is(err, "ErrInvalidConfig")
       ELSE call.input.Timeout >= 0
            => /\ result = ClientResult
               /\ err = NoError
               /\ client # NilClient
               /\ client.baseURL = "https://app.bentonow.com/api/v1"
               /\ client.config.PublishableKey = call.input.PublishableKey
               /\ client.config.SecretKey = call.input.SecretKey
               /\ client.config.SiteUUID = call.input.SiteUUID

\* only the secret key is missing
C14_Witness ==
    /\ pc = "done"
    /\ call.op = "NewClient"
    /\ call.input = [PublishableKey |-> "pk", SecretKey |-> "", SiteUUID |-> "site",
                     Timeout |-> 5]
    /\ result = NilResult
    /\ err = Sentinel("ErrInvalidConfig")

(***************************************************************************)
(* C15.  NewClient with valid credentials treats the timeout as follows:   *)
(* a zero Timeout is not an error and is replaced by 10 seconds, in the    *)
(* stored Config and in the default transport alike; a positive Timeout is *)
(* kept unchanged in both; a negative Timeout makes construction fail with *)
(* a nil client.                                                           *)
(***************************************************************************)
C15_ZeroTimeoutBecomesTenSeconds ==
    (/\ pc = "done"
     /\ call.op = "NewClient"
     /\ call.input.PublishableKey # ""
     /\ call.input.SecretKey # ""
     /\ call.input.SiteUUID # "")
    => CASE call.input.Timeout = 0 ->
                /\ err = NoError
                /\ result = ClientResult
                /\ client.config.Timeout = 10
                /\ client.httpClient = DefaultTransport(10)
         [] call.input.Timeout > 0 ->
                /\ err = NoError
                /\ result = ClientResult
                /\ client.config.Timeout = call.input.Timeout
                /\ client.httpClient = DefaultTransport(call.input.Timeout)
         [] call.input.Timeout < 0 ->
                /\ err # NoError
                /\ result = NilResult

\* construction with a zero timeout has returned a client with 10 seconds
C15_Witness ==
    /\ pc = "done"
    /\ call.op = "NewClient"
    /\ call.input = [PublishableKey |-> "pk", SecretKey |-> "sk",
                     SiteUUID |-> "site2", Timeout |-> 0]
    /\ err = NoError
    /\ client.config.Timeout = 10
    /\ client.httpClient = DefaultTransport(10)

(***************************************************************************)
(* C16 as claimed: every failure of client construction is a               *)
(* configuration error, one that matches the ErrInvalidConfig sentinel:    *)
(* when a required credential is empty and when the timeout is negative.   *)
(***************************************************************************)
C16_EveryConstructionFailureIsInvalidConfig ==
    (pc = "done" /\ call.op = "NewClient" /\ err # NoError)
    => Is(err, "ErrInvalidConfig")

(***************************************************************************)
(* C17.  SetHTTPClient(nil) returns an error and leaves the client's       *)
(* transport unchanged; SetHTTPClient(t) with a non-nil t returns nil and  *)
(* makes t the client's transport, changing nothing else of the client.    *)
(* Nothing but SetHTTPClient changes the client, and every operation sends *)
(* its request through the transport the client holds when the operation   *)
(* starts: through the last one installed, whatever was installed before,  *)
(* and through the previous one after a rejected nil.                      *)
(***************************************************************************)
C17_TransportReplacement ==
    /\ []((pc = "done" /\ call.op = "SetHTTPClient")
          => IF call.input = NilTransport
             THEN err # NoError
             ELSE err = NoError /\ client.httpClient = call.input)
    /\ []((call.op \in Operations /\ doCalls = 1)
          => doer = client.httpClient /\ doer # NilTransport)
    /\ [][IF pc = "idle" /\ pc' = "done" /\ call'.op = "SetHTTPClient"
          THEN IF call'.input = NilTransport
               THEN client' = client
               ELSE client' = [client EXCEPT !.httpClient = call'.input]
          ELSE client' = client]_vars

\* an operation is sending through the second test double, installed
\* after the one the client was set up with
C17_Witness ==
    /\ pc = "inflight"
    /\ call.op = "GetFields"
    /\ doCalls = 1
    /\ client.httpClient = MockTransport(2)
    /\ doer = MockTransport(2)

(***************************************************************************)
(* C18.  The HTTP surface: each operation's method and path.               *)
(***************************************************************************)
Surface ==
    [GetTags |-> <<"GET", "/fetch/tags">>,
     CreateTag |-> <<"POST", "/fetch/tags">>,
     GetFields |-> <<"GET", "/fetch/fields">>,
     CreateField |-> <<"POST", "/fetch/fields">>,
     FindSubscriber |-> <<"GET", "/fetch/subscribers">>,
     CreateSubscriber |-> <<"POST", "/fetch/subscribers">>,
     ImportSubscribers |-> <<"POST", "/batch/subscribers">>,
     TrackEvent |-> <<"POST", "/batch/events">>,
     SubscriberCommand |-> <<"POST", "/fetch/commands">>,
     CreateEmails |-> <<"POST", "/batch/emails">>,
     GetBroadcasts |-> <<"GET", "/fetch/broadcasts">>,
     CreateBroadcast |-> <<"POST", "/batch/broadcasts">>,
     GetSiteStats |-> <<"GET", "/stats/site">>,
     GetSegmentStats |-> <<"GET", "/stats/segment">>,
     GetReportStats |-> <<"GET", "/stats/report">>,
     GetBlacklistStatus |-> <<"GET", "/experimental/blacklist.json">>,
     ValidateEmail |-> <<"POST", "/experimental/validation">>,
     GetContentModeration |-> <<"POST", "/experimental/content_moderation">>,
     GetGender |-> <<"POST", "/experimental/gender">>,
     GeoLocateIP |-> <<"GET", "/experimental/geolocation">>]

(***************************************************************************)
(* C18.  Each operation sends a request whose method and path are fixed    *)
(* and equal to the HTTP surface table, against the fixed base URL         *)
(* https://app.bentonow.com/api/v1; method and path are the same for every *)
(* input of the operation.                                                 *)
(***************************************************************************)
C18_MethodAndPathAreFixed ==
    (call.op \in Operations /\ doCalls = 1)
    => /\ call.op \in DOMAIN Surface
       /\ request.method = Surface[call.op][1]
       /\ request.path = Surface[call.op][2]
       /\ request.base = "https://app.bentonow.com/api/v1"

\* GeoLocateIP's request for an IPv6 address is with the transport
C18_Witness ==
    /\ pc = "inflight"
    /\ call.op = "GeoLocateIP"
    /\ call.input = <<":", ":", "1">>
    /\ doCalls = 1
    /\ request.method = "GET"
    /\ request.path = "/experimental/geolocation"

(***************************************************************************)
(* C19 as claimed: every GET operation passes its parameters via the query *)
(* string with no body, and every POST operation passes its parameters as  *)
(* a JSON body, ValidateEmail, GetContentModeration and GetGender          *)
(* included.                                                               *)
(***************************************************************************)
C19_GetUsesQueryPostUsesBody ==
    (call.op \in Operations /\ doCalls = 1)
    => IF request.method = "GET"
       THEN request.body = NoReqBody
       ELSE /\ request.method = "POST"
            /\ request.body # NoReqBody
            /\ DOMAIN request.query = {"site_uuid"}

(***************************************************************************)
(* C20.  What a call does when it runs alone on the client cl: the request *)
(* it hands to the transport, and what it returns for what the transport   *)
(* answered.                                                               *)
(***************************************************************************)
AloneRequest(c, cl) ==
    [BuildRequest(c) EXCEPT
        !.base = cl.baseURL,
        !.auth = <<cl.config.PublishableKey, cl.config.SecretKey>>,
        !.accept = "application/json",
        !.contentType = "application/json",
        !.userAgent = <<"bento-go-", cl.config.SiteUUID>>,
        !.query = @ @@ ("site_uuid" :> cl.config.SiteUUID)]

AloneReturn(c, out) ==
    IF out.err # NoError THEN Ret(ZeroResult(c.op), out.err) ELSE Respond(c, out)

\* the call of goroutine p is an operation that was handed to a transport
Sent(p) ==
    /\ frames[p].call.op \in Operations
    /\ frames[p].pc \in {"inflight", "done"}
    /\ frames[p].doer # NilTransport

(***************************************************************************)
(* C20.  Any number of operations may run concurrently on one Client.  No  *)
(* operation writes the Client: its baseURL and config never change, and   *)
(* its transport changes only by SetHTTPClient's assignment.  In every     *)
(* interleaving each call's request (method, path, auth, headers, query,   *)
(* body) is the one it would build alone on the client it started with,    *)
(* and what it returns is what it would return alone for the same answer   *)
(* of the transport.  A call that no SetHTTPClient assignment raced with   *)
(* (none was made between the call's start and its read of the transport), *)
(* on a client whose transport is not torn, sends through the transport    *)
(* the client held when the call started and does not crash.               *)
(***************************************************************************)
C20_ConcurrentCallsAreIndependent ==
    /\ [](\A p \in Procs :
            LET f == frames[p]
            IN  f.call.op \in Operations
                => /\ f.startClient.config = TestConfig
                   /\ f.startClient.baseURL = "https://app.bentonow.com/api/v1"
                   /\ (f.pc \in {"prepared", "inflight", "crashed"} \/ Sent(p))
                      => f.request = AloneRequest(f.call, f.startClient)
                   /\ (f.pc = "done" /\ f.outcome # NoOutcome)
                      => /\ Sent(p)
                         /\ Ret(f.result, f.err) = AloneReturn(f.call, f.outcome)
                   /\ (f.pc = "done" /\ f.outcome = NoOutcome)
                      => /\ f.doer = NilTransport
                         /\ f.result = ZeroResult(f.call.op)
                         /\ f.err = IF ValidationError(f.call) # NoError
                                    THEN ValidationError(f.call)
                                    ELSE ctxErr(f.call.ctx)
                         /\ f.err # NoError
                   /\ (~f.raced /\ f.startClient.httpClient # TornTransport)
                      => /\ f.pc # "crashed"
                         /\ Sent(p) => f.doer = f.startClient.httpClient)
    /\ [][client' # client
          => /\ \E p \in Procs : /\ frames[p].pc = "assigning"
                                 /\ frames'[p].pc = "done"
                                 /\ frames[p].call.op = "SetHTTPClient"
             /\ client'.baseURL = client.baseURL
             /\ client'.config = client.config]_vars

\* two goroutines are inside the transport at once with different
\* operations, neither raced with
C20_Witness ==
    /\ frames[1].pc = "inflight"
    /\ frames[1].call.op = "CreateEmails"
    /\ frames[2].pc = "inflight"
    /\ frames[2].call.op = "GetTags"
    /\ ~frames[1].raced /\ ~frames[2].raced
    /\ frames[1].doer = MockTransport(1)
    /\ frames[2].doer = MockTransport(1)

(***************************************************************************)
(* C21.  Operations retain no state between calls.  Every step of an       *)
(* operation (its start, the return of the transport, its return to the    *)
(* caller) leaves the client's base URL, configuration and transport as    *)
(* they were, so they are the same after any sequence of operations.  What *)
(* an operation returns is a function of its own input, its own context    *)
(* and what the transport answered to its own request, whatever calls came *)
(* before: the validation error if the input is invalid, else the          *)
(* context's error if the context was done, else what the operation makes  *)
(* of the transport's answer.                                              *)
(***************************************************************************)
C21_OperationsRetainNoState ==
    /\ []((pc = "done" /\ call.op \in Operations)
            => Ret(result, err) =
                 IF ValidationError(call) # NoError
                 THEN Ret(ZeroResult(call.op), ValidationError(call))
                 ELSE IF ctxErr(call.ctx) # NoError
                 THEN Ret(ZeroResult(call.op), ctxErr(call.ctx))
                 ELSE AloneReturn(call, outcome))
    /\ [][(call.op \in Operations \/ call'.op \in Operations)
            => client' = client]_vars

\* an operation returned on a client that earlier calls had used: its
\* transport had been replaced before, and the client is otherwise as built
C21_Witness ==
    /\ pc = "done"
    /\ call.op = "TrackEvent"
    /\ outcome.status = 500
    /\ Is(err, "ErrAPIResponse")
    /\ client = [baseURL |-> BaseURL, httpClient |-> MockTransport(2),
                 config |-> TestConfig]

(***************************************************************************)
(* C22.  The status code an error of the strict Client.do carries: the     *)
(* number its message prints, written in the format for the eight named    *)
(* statuses and passed as the %d argument by the catch-all.                *)
(***************************************************************************)
NamedStatuses == {401, 403, 404, 400, 429, 500, 503}

StatusCarried(e) ==
    CASE e.nums # << >> -> e.nums[1]
      [] e.msg = "%w: invalid authentication credentials (401)" -> 401
      [] e.msg = "%w: access forbidden (403)" -> 403
      [] e.msg = "%w: resource not found (404)" -> 404
      [] e.msg = "%w: invalid request parameters (400)" -> 400
      [] e.msg = "%w: rate limit exceeded (429)" -> 429
      [] e.msg = "%w: server error (500)" -> 500
      [] e.msg = "%w: service unavailable (503)" -> 503
      [] OTHER -> 0

(***************************************************************************)
(* C22.  With the strict Client.do the status is interpreted by do itself. *)
(* A response of status 200 or 201 is returned to the operation, which     *)
(* handles it as it handles any response.  Every other status makes do     *)
(* return a nil response and an error that matches ErrAPIResponse and      *)
(* carries that status; the operation returns that error with a zero       *)
(* result and closes nothing.  The errors of 401, 403, 404, 400, 429, 500  *)
(* and 503 differ from one another and from the catch-all's error for any  *)
(* other status, whose message has its own format.                         *)
(***************************************************************************)
C22_StrictDoInterpretsStatus ==
    /\ (pc = "done" /\ outcome.err = NoError /\ outcome # NoOutcome)
       => IF outcome.status \in {StatusOK, StatusCreated}
          THEN /\ Ret(result, err) = Respond(call, outcome)
               /\ closed = 1
          ELSE /\ Is(err, "ErrAPIResponse")
               /\ StatusCarried(err) = outcome.status
               /\ result = ZeroResult(call.op)
               /\ closed = 0
               /\ \A s \in (NamedStatuses \cup ErrorStatuses) \ {outcome.status} :
                      /\ strictStatusError(s) # err
                      /\ s \in NamedStatuses /\ outcome.status \notin NamedStatuses
                         => strictStatusError(s).msg # err.msg

\* the transport answered 503 to CreateSubscriber
C22_Witness ==
    /\ pc = "done"
    /\ call.op = "CreateSubscriber"
    /\ outcome.err = NoError
    /\ outcome.status = 503
    /\ err = Errorf("%w: service unavailable (503)", "ErrAPIResponse", << >>, << >>)
    /\ result = NilResult

(***************************************************************************)
(* C23.  The sentinel documented for a call whose required argument is     *)
(* empty ("none" when the call has no empty required argument): an empty   *)
(* tag name, field key or report ID and an empty batch give                *)
(* ErrInvalidRequest, an empty segment ID ErrInvalidSegmentID, an empty    *)
(* content ErrInvalidContent, an empty name ErrInvalidName, and a          *)
(* blacklist query with neither domain nor IP ErrInvalidRequest.           *)
(***************************************************************************)
EmptyValueSentinel(c) ==
    CASE c.op \in {"CreateTag", "CreateField", "GetReportStats"} /\ c.input = ""
           -> "ErrInvalidRequest"
      [] c.op \in {"ImportSubscribers", "TrackEvent", "CreateEmails",
                   "CreateBroadcast", "SubscriberCommand"} /\ Len(c.input) = 0
           -> "ErrInvalidRequest"
      [] c.op = "GetSegmentStats" /\ c.input = "" -> "ErrInvalidSegmentID"
      [] c.op = "GetContentModeration" /\ c.input = "" -> "ErrInvalidContent"
      [] c.op = "GetGender" /\ c.input = "" -> "ErrInvalidName"
      [] c.op = "GetBlacklistStatus" /\ c.input.Domain = ""
            /\ c.input.IPAddress = << >> -> "ErrInvalidRequest"
      [] OTHER -> "none"

(***************************************************************************)
(* C23.  Every operation with a required string or list argument rejects   *)
(* an empty value locally: the call returns a zero result and an error     *)
(* that matches the documented sentinel, whatever its context, and the     *)
(* transport is never invoked.                                             *)
(***************************************************************************)
C23_EmptyRequiredValueRejectedLocally ==
    (Called /\ call.op \in Operations /\ EmptyValueSentinel(call) # "none")
    => /\ ReturnedWithoutSending
       /\ Is(err, EmptyValueSentinel(call))
       /\ result = ZeroResult(call.op)
       /\ outcome = NoOutcome

\* GetSegmentStats called with an empty segment ID
C23_Witness ==
    /\ pc = "done"
    /\ call.op = "GetSegmentStats"
    /\ call.input = ""
    /\ Is(err, "ErrInvalidSegmentID")
    /\ doCalls = 0

(***************************************************************************)
(* C24.  A broadcast's fields other than the batch size are valid; the     *)
(* broadcast is valid.                                                     *)
(***************************************************************************)
BroadcastFieldsValid(b) ==
    /\ b.Name # ""
    /\ b.Subject # ""
    /\ b.Content # ""
    /\ ParseAddress(b.From.Email)

BroadcastValid(b) == BroadcastFieldsValid(b) /\ b.BatchSizePerHour >= 1

(***************************************************************************)
(* C24, as stated.  CreateBroadcast sends a batch only if every broadcast  *)
(* has a non-empty name, subject and content, a parsable sender email and  *)
(* a batch size of at least 1; and every batch that holds a broadcast with *)
(* a batch size of zero or less fails with an error matching               *)
(* ErrInvalidBatchSize, nothing being sent.                                *)
(***************************************************************************)
C24_NonPositiveBatchSizeGivesInvalidBatchSize ==
    (Called /\ call.op = "CreateBroadcast")
    => /\ doCalls = 1
          => \A i \in 1..Len(call.input) : BroadcastValid(call.input[i])
       /\ (\E i \in 1..Len(call.input) : call.input[i].BatchSizePerHour <= 0)
          => /\ ReturnedWithoutSending
             /\ Is(err, "ErrInvalidBatchSize")

(***************************************************************************)
(* C24, amended.  CreateBroadcast sends a batch only if it is not empty    *)
(* and every broadcast has a non-empty name, subject and content, a        *)
(* parsable sender email and a batch size of at least 1.  A batch that     *)
(* holds a broadcast with a batch size of zero or less fails without       *)
(* anything being sent; the error matches ErrInvalidBatchSize when that    *)
(* broadcast's other fields are valid and every broadcast before it is     *)
(* valid, and is otherwise the error of the check that failed first.       *)
(***************************************************************************)
C24_NonPositiveBatchSizeRejectedLocally ==
    (Called /\ call.op = "CreateBroadcast")
    => /\ doCalls = 1
          => /\ Len(call.input) > 0
             /\ \A i \in 1..Len(call.input) : BroadcastValid(call.input[i])
       /\ (\E i \in 1..Len(call.input) : call.input[i].BatchSizePerHour <= 0)
          => /\ ReturnedWithoutSending
             /\ err # NoError
             /\ err = CreateBroadcastValidate(call.input)
             /\ result = NilResult
       /\ (\E i \in 1..Len(call.input) :
              /\ call.input[i].BatchSizePerHour <= 0
              /\ BroadcastFieldsValid(call.input[i])
              /\ \A j \in 1..(i - 1) : BroadcastValid(call.input[j]))
          => Is(err, "ErrInvalidBatchSize")

\* a valid broadcast followed by one whose batch size is zero
C24_Witness ==
    /\ pc = "done"
    /\ call.op = "CreateBroadcast"
    /\ Len(call.input) = 2
    /\ BroadcastValid(call.input[1])
    /\ BroadcastFieldsValid(call.input[2])
    /\ call.input[2].BatchSizePerHour = 0
    /\ Is(err, "ErrInvalidBatchSize")
    /\ doCalls = 0

(***************************************************************************)
(* C25.  The credentials of a Config, and the length the validated         *)
(* NewClient measures: that of the credential without the double quotes    *)
(* around it.                                                              *)
(***************************************************************************)
Credentials(config) == {config.PublishableKey, config.SecretKey, config.SiteUUID}

BadKeyLength(k) == Len(Trim(k)) < 28 \/ Len(Trim(k)) > 36

(***************************************************************************)
(* C25.  The validated NewClient checks missing fields, then key lengths,  *)
(* then the timeout.  A Config with an empty credential fails with an      *)
(* error that matches ErrInvalidConfig and not ErrInvalidKeyLength,        *)
(* whatever the lengths of the other credentials.  With no credential      *)
(* empty, construction fails with an error matching ErrInvalidKeyLength    *)
(* exactly when some credential, without its surrounding double quotes, is *)
(* shorter than 28 or longer than 36, whatever the timeout; otherwise it   *)
(* fails only for a negative timeout.  Lengths 28 and 36 pass, 27 and 37   *)
(* do not.                                                                 *)
(***************************************************************************)
C25_ValidatedNewClientCheckOrder ==
    (pc = "done" /\ call.op = "NewClient")
    => LET config == call.input
       IN  /\ (\E k \in Credentials(config) : k = << >>)
              => /\ Is(err, "ErrInvalidConfig")
                 /\ ~Is(err, "ErrInvalidKeyLength")
                 /\ result = NilResult
           /\ (\A k \in Credentials(config) : k # << >>)
              => /\ Is(err, "ErrInvalidKeyLength")
                    <=> \E k \in Credentials(config) : BadKeyLength(k)
                 /\ Is(err, "ErrInvalidKeyLength") => result = NilResult
                 /\ ~Is(err, "ErrInvalidConfig")
                 /\ (\A k \in Credentials(config) : ~BadKeyLength(k))
                    => (err = NoError <=> config.Timeout >= 0)
           /\ Credentials(config) \subseteq {Key(28), Key(36)} /\ config.Timeout >= 0
              => err = NoError /\ result = ClientResult
           /\ (\A k \in Credentials(config) : k # << >>)
                 /\ Credentials(config) \cap {Key(27), Key(37)} # {}
              => Is(err, "ErrInvalidKeyLength")

\* a secret key of 37 characters beside keys of 28 and 36, and a negative
\* timeout that the key-length check precedes
C25_Witness ==
    /\ pc = "done"
    /\ call.op = "NewClient"
    /\ call.input = [PublishableKey |-> Key(28), SecretKey |-> Key(37),
                     SiteUUID |-> Key(36), Timeout |-> -1]
    /\ Is(err, "ErrInvalidKeyLength")
    /\ err.nums = <<37>>
    /\ err.msg = "%w: SecretKey must be between 28 and 36 characters (got %d)"

(***************************************************************************)
(* C26.  Input validation takes precedence over the cancellation check.    *)
(* An operation called with a context that is already cancelled or past    *)
(* its deadline and with an input its validation rejects (a malformed      *)
(* email or IP, an empty required field, an empty or oversized batch, an   *)
(* unknown command type) returns the validation error, which is not the    *)
(* context's error and does not wrap it, with a zero result; the transport *)
(* is not invoked.                                                         *)
(***************************************************************************)
C26_ValidationPrecedesCancellation ==
    (Called /\ call.op \in Operations /\ call.ctx # "live"
        /\ ValidationError(call) # NoError)
    => /\ ReturnedWithoutSending
       /\ err = ValidationError(call)
       /\ err # ctxErr(call.ctx)
       /\ ~Is(err, "context.Canceled")
       /\ ~Is(err, "context.DeadlineExceeded")
       /\ result = ZeroResult(call.op)

\* SubscriberCommand with an unknown command type under a cancelled context
C26_Witness ==
    /\ pc = "done"
    /\ call.op = "SubscriberCommand"
    /\ call.ctx = "canceled"
    /\ Len(call.input) = 1
    /\ call.input[1].Command \notin FixedCommandKinds
    /\ err.msg = "%w: invalid command type: %s"
    /\ Is(err, "ErrInvalidRequest")
    /\ doCalls = 0

(***************************************************************************)
(* C27.  The operations that take a batch, the checks they make on the     *)
(* list as a whole (an empty batch; more than 60 emails) and on one item,  *)
(* and the positions of the items that fail their checks.                  *)
(***************************************************************************)
ListOperations ==
    {"ImportSubscribers", "TrackEvent", "CreateEmails", "CreateBroadcast",
     "SubscriberCommand"}

ListError(c) ==
    IF Len(c.input) = 0
    THEN IF c.op = "CreateEmails"
         THEN Errorf("%w: no emails provided", "ErrInvalidRequest", << >>, << >>)
         ELSE ErrInvalidRequest
    ELSE IF c.op = "CreateEmails" /\ Len(c.input) > 60
    THEN Errorf("%w: maximum of 60 emails allowed per request", "ErrInvalidRequest",
                << >>, << >>)
    ELSE NoError

ItemError(op, item) ==
    CASE op = "ImportSubscribers" -> CreateSubscriberValidate(item)
      [] op = "TrackEvent" -> eventError(item)
      [] op = "CreateEmails" -> emailDataError(item)
      [] op = "CreateBroadcast" -> broadcastError(item)
      [] op = "SubscriberCommand" -> commandError(item)

InvalidItems(c) ==
    {i \in 1..Len(c.input) : ItemError(c.op, c.input[i]) # NoError}

(***************************************************************************)
(* C27.  Batch validation is all-or-nothing and ordered.  For              *)
(* ImportSubscribers, TrackEvent, CreateEmails, CreateBroadcast and        *)
(* SubscriberCommand: a batch that fails a list-level check returns that   *)
(* check's error, whatever its items; otherwise, if some item is invalid,  *)
(* the call returns the error of the first failing check of the invalid    *)
(* item of lowest index; in both cases the transport is not invoked.  A    *)
(* request is sent only for a batch without any invalid item, and it       *)
(* carries the whole batch.                                                *)
(***************************************************************************)
C27_BatchValidationAllOrNothing ==
    (Called /\ call.op \in ListOperations)
    => /\ ListError(call) # NoError
          => /\ ReturnedWithoutSending
             /\ err = ListError(call)
       /\ (ListError(call) = NoError /\ InvalidItems(call) # {})
          => /\ ReturnedWithoutSending
             /\ \E i \in InvalidItems(call) :
                    /\ \A j \in InvalidItems(call) : i <= j
                    /\ err = ItemError(call.op, call.input[i])
             /\ result = ZeroResult(call.op)
       /\ doCalls = 1
          => /\ ListError(call) = NoError
             /\ InvalidItems(call) = {}
             /\ request.body.value = call.input

\* two invalid events with different errors: the first one's is returned
C27_Witness ==
    /\ pc = "done"
    /\ call.op = "TrackEvent"
    /\ Len(call.input) = 2
    /\ call.input[1].Email = ValidEmail
    /\ call.input[1].Type = ""
    /\ ~ParseAddress(call.input[2].Email)
    /\ err = Errorf("%w: event type is required", "ErrInvalidRequest", << >>, << >>)
    /\ doCalls = 0

(***************************************************************************)
(* C28.  HTTP 201 is a success only for CreateSubscriber, CreateBroadcast, *)
(* CreateTag and CreateField, which handle a 201 response as they handle   *)
(* the same response with status 200.  Every other operation answered 201  *)
(* returns a zero result and an error that matches ErrAPIResponse and      *)
(* carries 201.                                                            *)
(***************************************************************************)
CreatedAccepted == {"CreateSubscriber", "CreateBroadcast", "CreateTag", "CreateField"}

C28_CreatedAcceptedByFourOperations ==
    (Answered(201) /\ call.op \in Operations)
    => IF call.op \in CreatedAccepted
       THEN /\ ~Is(err, "ErrAPIResponse")
            /\ Ret(result, err) = Respond(call, [outcome EXCEPT !.status = 200])
       ELSE /\ Is(err, "ErrAPIResponse")
            /\ err.nums = <<201>>
            /\ result = ZeroResult(call.op)

\* ImportSubscribers answered 201 with a body that reports no failure
C28_Witness ==
    /\ Answered(201)
    /\ call.op = "ImportSubscribers"
    /\ outcome.body = Body("object", JNum(1), JNum(0), Absent, Absent)
    /\ err = Errorf("%w: %d", "ErrAPIResponse", <<201>>, << >>)

(***************************************************************************)
(* C29.  CreateEmails does not apply the partial-failure policy.  Answered *)
(* 200 with a body it can decode (a JSON object whose results member is    *)
(* absent or a number), it returns the results count and a nil error,      *)
(* whatever the body's failed member is: absent, zero, greater than zero   *)
(* (also beside results = 0), or not a number at all.                      *)
(***************************************************************************)
C29_CreateEmailsIgnoresFailedCount ==
    (/\ Answered(200)
     /\ call.op = "CreateEmails"
     /\ outcome.body.top = "object"
     /\ outcome.body.results.t \in {"absent", "num"})
    => /\ err = NoError
       /\ result = IntResult(outcome.body.results.n)

\* CreateEmails answered 200 with results = 0 and failed = 1
C29_Witness ==
    /\ Answered(200)
    /\ call.op = "CreateEmails"
    /\ outcome.body = Body("object", JNum(0), JNum(1), Absent, Absent)
    /\ err = NoError
    /\ result = IntResult(0)

(***************************************************************************)
(* C30.  Whenever the transport returns a response to an operation, with   *)
(* any status code, the body of that response has been closed exactly once *)
(* when the operation returns, on every path: success, a status that is    *)
(* not a success, a body that does not decode, a partly failed batch and   *)
(* a subscriber that was not found.  When the transport returns an error,  *)
(* or is not invoked, nothing is closed.                                   *)
(***************************************************************************)
C30_ResponseBodyClosedOnce ==
    (pc = "done" /\ call.op \in Operations)
    => /\ (outcome # NoOutcome /\ outcome.err = NoError) => closed = 1
       /\ (outcome = NoOutcome \/ outcome.err # NoError) => closed = 0

====
